---- MODULE Spec2Model ----
(***************************************************************************)
(* Portfolio simulator of modules/decision/portfolio.py.                   *)
(*                                                                         *)
(* Money is counted in integer minor units (1 unit = 0.01 TND), so that    *)
(* round(x, 2) of the source is rounding to a whole unit.  Prices, totals  *)
(* and cash are integers; everything the source obtains by a division      *)
(* (average price, profit/loss, valuations) is an exact rational           *)
(* [n |-> numerator, d |-> denominator] in lowest terms.  The rounding     *)
(* error of floating point is represented in the Sharpe ratio and in the   *)
(* side to which the confidence of a recommendation is rounded at a tie.   *)
(***************************************************************************)
EXTENDS Integers, Sequences, FiniteSets, TLC

VARIABLES portfolio, now, call, result

vars == <<portfolio, now, call, result>>

(***************************************************************************)
(* Bounds of the exploration.                                              *)
(***************************************************************************)
MaxTx == 3
MaxSnap == 2
MaxSerTx == 1

Codes == {"A", "B"}
Prices == {1, 2}
Quantities == {1, 2}
Dates == {1, 2}
Capitals == {0, 5}

(***************************************************************************)
(* Exact rational arithmetic standing for the float operators + - * /.     *)
(***************************************************************************)
Abs(x) == IF x < 0 THEN -x ELSE x

RECURSIVE GCD(_, _)
GCD(a, b) == IF b = 0 THEN a ELSE GCD(b, a % b)

Rat(n, d) ==
    LET s == IF d < 0 THEN -1 ELSE 1
        g == GCD(Abs(n), Abs(d))
    IN  [n |-> (s * n) \div g, d |-> (s * d) \div g]

RInt(i) == [n |-> i, d |-> 1]
Zero == RInt(0)
RAdd(a, b) == Rat(a.n * b.d + b.n * a.d, a.d * b.d)
RSub(a, b) == Rat(a.n * b.d - b.n * a.d, a.d * b.d)
RMul(a, b) == Rat(a.n * b.n, a.d * b.d)
RDivInt(a, k) == Rat(a.n, a.d * k)
RDiv(a, b) == Rat(a.n * b.d, a.d * b.n)
RLt(a, b) == a.n * b.d < b.n * a.d
RLe(a, b) == a.n * b.d <= b.n * a.d

\* round(x, ndigits): the nearest multiple of 1/k, a tie going to the even one.
Round(x, k) ==
    LET f == (x.n * k) \div x.d
        r == (x.n * k) % x.d
        q == IF 2 * r > x.d \/ (2 * r = x.d /\ f % 2 = 1) THEN f + 1 ELSE f
    IN  Rat(q, k)

\* round(x, ndigits) of a float x that has come out of float arithmetic: a
\* value that is a tie in exact arithmetic reaches round() just below or just
\* above the tie, on the side `half`; any other value goes to the nearest
\* multiple of 1/k.
HalfWays == {"down", "up"}

RoundFloat(x, k, half) ==
    LET f == (x.n * k) \div x.d
        r == (x.n * k) % x.d
        q == IF 2 * r > x.d \/ (2 * r = x.d /\ half = "up") THEN f + 1 ELSE f
    IN  Rat(q, k)

\* sum(f[c] for c in S)
RECURSIVE RSum(_, _)
RSum(f, S) ==
    IF S = {} THEN Zero
    ELSE LET c == CHOOSE c \in S : TRUE
         IN  RAdd(f[c], RSum(f, S \ {c}))

(***************************************************************************)
(* Portfolio.__init__                                                      *)
(***************************************************************************)
NoHoldings == [c \in {} |-> 0]
NoPrices == [c \in {} |-> Zero]

StockName(code) == IF code = "A" THEN "ATTIJARI BANK" ELSE "BIAT"

NewPortfolio(initial_capital, nm, ts) ==
    [name                |-> nm,
     initial_capital     |-> initial_capital,
     cash                |-> initial_capital,
     holdings            |-> NoHoldings,
     transaction_history |-> <<>>,
     daily_snapshots     |-> <<>>,
     daily_values        |-> <<>>,
     created_at          |-> ts]

(***************************************************************************)
(* Portfolio.get_current_value / get_holdings_value                        *)
(***************************************************************************)
PriceOf_nofallback(current_prices, stock_code, holding) ==
    IF stock_code \in DOMAIN current_prices
    THEN current_prices[stock_code]
    ELSE Zero

\* current_prices.get(stock_code, holding['avg_price'])
PriceOf(current_prices, stock_code, holding) ==
    IF stock_code \in DOMAIN current_prices
    THEN current_prices[stock_code]
    ELSE holding.avg_price

get_holdings_value(self, current_prices) ==
    RSum([c \in DOMAIN self.holdings |->
              RMul(RInt(self.holdings[c].quantity),
                   PriceOf(current_prices, c, self.holdings[c]))],
         DOMAIN self.holdings)

get_current_value(self, current_prices) ==
    RAdd(RInt(self.cash), get_holdings_value(self, current_prices))

(***************************************************************************)
(* Portfolio._record_daily_value                                           *)
(***************************************************************************)
\* index of the last entry of daily_values dated `date`, 0 when there is none
LastEntryOf(daily_values, date) ==
    LET I == {i \in 1..Len(daily_values) : daily_values[i].date = date}
    IN  IF I = {} THEN 0 ELSE CHOOSE i \in I : \A j \in I : j <= i

record_daily_value(self, date, price_overrides) ==
    LET prices == [c \in DOMAIN self.holdings \cup DOMAIN price_overrides |->
                      IF c \in DOMAIN price_overrides
                      THEN price_overrides[c]
                      ELSE self.holdings[c].avg_price]
        value == get_current_value(self, prices)
        i     == LastEntryOf(self.daily_values, date)
    IN  IF i # 0
        THEN [self EXCEPT !.daily_values[i].value = value]
        ELSE [self EXCEPT !.daily_values =
                  Append(@, [date |-> date, value |-> value])]

(***************************************************************************)
(* Portfolio.buy                                                           *)
(***************************************************************************)
\* if total_cost > self.cash
InsufficientFunds_lax(total_cost, cash) == total_cost > cash + 1
InsufficientFunds_strict(total_cost, cash) == total_cost >= cash
InsufficientFunds(total_cost, cash) == total_cost > cash

\* self.transaction_history.append(transaction)
AppendTx_front(history, transaction) == <<transaction>> \o history
AppendTx(history, transaction) == Append(history, transaction)

\* total_value / total_quantity if total_quantity > 0 else 0
NewAvgPrice_unweighted(old_quantity, old_avg, quantity, price) ==
    IF old_quantity = 0 THEN RInt(price)
    ELSE RDivInt(RAdd(old_avg, RInt(price)), 2)
NewAvgPrice_last(old_quantity, old_avg, quantity, price) == RInt(price)
NewAvgPrice(old_quantity, old_avg, quantity, price) ==
    LET total_quantity == old_quantity + quantity
        total_value    == RAdd(RMul(RInt(old_quantity), old_avg),
                               RInt(quantity * price))
    IN  IF total_quantity > 0 THEN RDivInt(total_value, total_quantity)
        ELSE Zero

buy(self, stock_code, stock_name, price, quantity, date, ts) ==
    LET total_cost == price * quantity
    IN  IF InsufficientFunds(total_cost, self.cash)
        THEN [self |-> self,
              ret  |-> [success   |-> FALSE,
                        message   |-> "Fonds insuffisants",
                        required  |-> total_cost,
                        available |-> self.cash]]
        ELSE
        LET cash1 == self.cash - total_cost
            h0 == IF stock_code \notin DOMAIN self.holdings
                  THEN [stock_name     |-> stock_name,
                        quantity       |-> 0,
                        avg_price      |-> Zero,
                        first_buy_date |-> date]
                  ELSE self.holdings[stock_code]
            h1 == [stock_name     |-> h0.stock_name,
                   quantity       |-> h0.quantity + quantity,
                   avg_price      |-> NewAvgPrice(h0.quantity, h0.avg_price,
                                                  quantity, price),
                   first_buy_date |-> h0.first_buy_date,
                   last_buy_date  |-> date]
            transaction == [type       |-> "BUY",
                            stock_code |-> stock_code,
                            stock_name |-> stock_name,
                            quantity   |-> quantity,
                            price      |-> price,
                            total      |-> total_cost,
                            date       |-> date,
                            timestamp  |-> ts,
                            cash_after |-> cash1]
            s1 == [self EXCEPT
                     !.cash = cash1,
                     !.holdings = (stock_code :> h1) @@ self.holdings,
                     !.transaction_history = AppendTx(@, transaction)]
        IN  [self |-> record_daily_value(s1, date, stock_code :> RInt(price)),
             ret  |-> [success     |-> TRUE,
                       message     |-> "Achat reussi",
                       transaction |-> transaction]]

(***************************************************************************)
(* Portfolio.sell                                                          *)
(***************************************************************************)
\* if holding['quantity'] < quantity
InsufficientQuantity_strict(held, quantity) == held <= quantity
InsufficientQuantity(held, quantity) == held < quantity

\* self.cash += proceeds
Credit_debit(cash, proceeds) == cash - proceeds
Credit(cash, proceeds) == cash + proceeds

\* if holding['quantity'] == 0: del self.holdings[stock_code]
PositionClosed_never(quantity) == FALSE
PositionClosed(quantity) == quantity = 0

sell(self, stock_code, price, quantity, date, ts) ==
    IF stock_code \notin DOMAIN self.holdings
    THEN [self |-> self,
          ret  |-> [success    |-> FALSE,
                    message    |-> "Vous ne possedez pas d'actions de ce titre",
                    stock_code |-> stock_code]]
    ELSE
    LET holding == self.holdings[stock_code]
    IN  IF InsufficientQuantity(holding.quantity, quantity)
        THEN [self |-> self,
              ret  |-> [success   |-> FALSE,
                        message   |-> "Quantite insuffisante",
                        available |-> holding.quantity]]
        ELSE
        LET avg_cost    == RMul(holding.avg_price, RInt(quantity))
            proceeds    == price * quantity
            profit_loss == RSub(RInt(proceeds), avg_cost)
            cash1       == Credit(self.cash, proceeds)
            quantity1   == holding.quantity - quantity
            holdings1   ==
                IF PositionClosed(quantity1)
                THEN [c \in DOMAIN self.holdings \ {stock_code} |->
                          self.holdings[c]]
                ELSE [self.holdings EXCEPT ![stock_code].quantity = quantity1]
            transaction == [type        |-> "SELL",
                            stock_code  |-> stock_code,
                            stock_name  |-> holding.stock_name,
                            quantity    |-> quantity,
                            price       |-> price,
                            total       |-> proceeds,
                            profit_loss |-> profit_loss,
                            date        |-> date,
                            timestamp   |-> ts,
                            cash_after  |-> cash1]
            s1 == [self EXCEPT
                     !.cash = cash1,
                     !.holdings = holdings1,
                     !.transaction_history = AppendTx(@, transaction)]
        IN  [self |-> record_daily_value(s1, date, stock_code :> RInt(price)),
             ret  |-> [success     |-> TRUE,
                       message     |-> "Vente reussie",
                       transaction |-> transaction,
                       profit_loss |-> profit_loss]]

(***************************************************************************)
(* Portfolio.get_performance_metrics                                       *)
(***************************************************************************)
SellIndices(history) ==
    {i \in 1..Len(history) : history[i].type = "SELL"}

\* tx.get('profit_loss', 0)
ProfitLossOf(tx) ==
    IF "profit_loss" \in DOMAIN tx THEN tx.profit_loss ELSE Zero

\* if pl > 0
IsProfitable_ge(pl) == RLe(Zero, pl)
IsProfitable(pl) == RLt(Zero, pl)

total_closed_trades(self) == Cardinality(SellIndices(self.transaction_history))

profitable_trades(self) ==
    Cardinality({i \in SellIndices(self.transaction_history) :
                     IsProfitable(ProfitLossOf(self.transaction_history[i]))})

total_realized_profit_gains(self) ==
    RSum([i \in SellIndices(self.transaction_history) |->
              IF IsProfitable(ProfitLossOf(self.transaction_history[i]))
              THEN ProfitLossOf(self.transaction_history[i]) ELSE Zero],
         SellIndices(self.transaction_history))
total_realized_profit(self) ==
    RSum([i \in SellIndices(self.transaction_history) |->
              ProfitLossOf(self.transaction_history[i])],
         SellIndices(self.transaction_history))

win_rate(self) ==
    IF total_closed_trades(self) > 0
    THEN Rat(profitable_trades(self) * 100, total_closed_trades(self))
    ELSE Zero

unrealized_pl(self, current_prices) ==
    RSum([c \in DOMAIN self.holdings |->
              LET holding == self.holdings[c]
                  current_price == PriceOf(current_prices, c, holding)
                  cost_basis == RMul(RInt(holding.quantity), holding.avg_price)
                  market_value == RMul(RInt(holding.quantity), current_price)
              IN  RSub(market_value, cost_basis)],
         DOMAIN self.holdings)

\* The ratio-based entries (sharpe_ratio, max_drawdown) are defined with the
\* valuation-series analytics.
get_performance_metrics(self, current_prices) ==
    IF self.initial_capital = 0
    THEN [raised |-> "ZeroDivisionError"]
    ELSE
    LET current_value   == get_current_value(self, current_prices)
        holdings_value  == get_holdings_value(self, current_prices)
        total_gain_loss == RSub(current_value, RInt(self.initial_capital))
        roi_percentage  == RMul(RDivInt(total_gain_loss, self.initial_capital),
                                RInt(100))
    IN  [portfolio_name    |-> self.name,
         initial_capital   |-> self.initial_capital,
         total_value       |-> Round(current_value, 1),
         cash              |-> Round(RInt(self.cash), 1),
         holdings_value    |-> Round(holdings_value, 1),
         total_gain_loss   |-> Round(total_gain_loss, 1),
         roi_percentage    |-> Round(roi_percentage, 100),
         realized_profit   |-> Round(total_realized_profit(self), 1),
         unrealized_profit |-> Round(unrealized_pl(self, current_prices), 1),
         win_rate          |-> Round(win_rate(self), 10),
         num_positions     |-> Cardinality(DOMAIN self.holdings),
         num_transactions  |-> Len(self.transaction_history),
         num_closed_trades |-> total_closed_trades(self)]

(***************************************************************************)
(* Portfolio.get_allocation                                                *)
(***************************************************************************)
Share_truncated(value, total_value) ==
    LET x == RMul(RDiv(value, total_value), RInt(100))
    IN  Rat((x.n * 100) \div x.d, 100)

\* round((value / total_value * 100), 2), for total_value > 0
Share(value, total_value) ==
    Round(RMul(RDiv(value, total_value), RInt(100)), 100)

\* the result maps "CASH" and every held code to a percentage
get_allocation(self, current_prices) ==
    LET total_value == get_current_value(self, current_prices)
    IN  IF RLe(total_value, Zero)
        THEN "CASH" :> RInt(100)
        ELSE ("CASH" :> Share(RInt(self.cash), total_value))
             @@ [c \in DOMAIN self.holdings |->
                    Share(RMul(RInt(self.holdings[c].quantity),
                               PriceOf(current_prices, c, self.holdings[c])),
                          total_value)]

(***************************************************************************)
(* Portfolio.get_transaction_history                                       *)
(* The optional arguments are None when left out: limit is <<>> for None   *)
(* and <<k>> for the integer k, stock_code is "" for None.                 *)
(***************************************************************************)
\* history.sort(key=timestamp, reverse=True): latest first, transactions of
\* one timestamp in the order they have in the list
RECURSIVE SortedLatestFirst(_)
SortedLatestFirst(history) ==
    IF history = <<>> THEN <<>>
    ELSE LET latest == CHOOSE t \in {history[i].timestamp :
                                         i \in 1..Len(history)} :
                           \A i \in 1..Len(history) :
                               t >= history[i].timestamp
             IsLatest(tx)  == tx.timestamp = latest
             IsEarlier(tx) == tx.timestamp # latest
         IN  SelectSeq(history, IsLatest)
                 \o SortedLatestFirst(SelectSeq(history, IsEarlier))

\* history[:limit]
Prefix(history, limit) ==
    IF limit >= 0
    THEN SubSeq(history, 1, IF limit < Len(history) THEN limit
                            ELSE Len(history))
    ELSE SubSeq(history, 1, IF Len(history) + limit > 0
                            THEN Len(history) + limit ELSE 0)

get_transaction_history(self, limit, stock_code) ==
    LET Matches(tx) == tx.stock_code = stock_code
        filtered == IF stock_code # ""
                    THEN SelectSeq(self.transaction_history, Matches)
                    ELSE self.transaction_history
        sorted   == SortedLatestFirst(filtered)
    IN  [self |-> self,
         ret  |-> IF limit # <<>> /\ limit[1] # 0
                  THEN Prefix(sorted, limit[1])
                  ELSE sorted]

(***************************************************************************)
(* Portfolio.take_snapshot                                                 *)
(***************************************************************************)
take_snapshot(self, current_prices, date, ts) ==
    LET snapshot == [date           |-> date,
                     total_value    |-> get_current_value(self, current_prices),
                     cash           |-> self.cash,
                     holdings_value |-> get_holdings_value(self, current_prices),
                     num_positions  |-> Cardinality(DOMAIN self.holdings),
                     timestamp      |-> ts]
    IN  [self EXCEPT !.daily_snapshots = Append(@, snapshot)]

(***************************************************************************)
(* Portfolio.to_dict / Portfolio.from_dict                                 *)
(***************************************************************************)
to_dict(self) ==
    [name                |-> self.name,
     initial_capital     |-> self.initial_capital,
     cash                |-> self.cash,
     holdings            |-> self.holdings,
     transaction_history |-> self.transaction_history,
     daily_snapshots     |-> self.daily_snapshots,
     daily_values        |-> self.daily_values,
     created_at          |-> self.created_at]

\* data.get(key, default)
Get(data, key, default) == IF key \in DOMAIN data THEN data[key] ELSE default

\* not portfolio.daily_values and portfolio.daily_snapshots
RebuildDailyValues(daily_values, daily_snapshots) ==
    daily_values = <<>> /\ daily_snapshots # <<>>

from_dict(data, ts) ==
    LET p0 == NewPortfolio(Get(data, "initial_capital", 1000000),
                           Get(data, "name", "Mon Portefeuille"), ts)
        snaps == Get(data, "daily_snapshots", <<>>)
        dv    == Get(data, "daily_values", <<>>)
    IN  [name                |-> p0.name,
         initial_capital     |-> p0.initial_capital,
         cash                |-> Get(data, "cash", p0.initial_capital),
         holdings            |-> Get(data, "holdings", NoHoldings),
         transaction_history |-> Get(data, "transaction_history", <<>>),
         daily_snapshots     |-> snaps,
         daily_values        |->
             IF RebuildDailyValues(dv, snaps)
             THEN [i \in 1..Len(snaps) |->
                      [date  |-> Get(snaps[i], "date", 0),
                       value |-> Get(snaps[i], "total_value", Zero)]]
             ELSE dv,
         created_at          |-> Get(data, "created_at", ts)]

(***************************************************************************)
(* Binary floating point, as far as the valuation-series analytics depend  *)
(* on it: every operation returns the representable number nearest to the  *)
(* exact result, a tie going to the even mantissa.  A Python float carries *)
(* 53 mantissa bits; MantissaBits is kept at 9, which rounds the binary    *)
(* expansions of period 4 (those of 1/10 and 1/5) at the same place of the *)
(* period as 53 does.                                                      *)
(***************************************************************************)
MantissaBits == 9

\* the mantissa nearest to a / d, a tie going to the even one
NearestEven(a, d) ==
    LET f == a \div d
        r == a % d
    IN  IF 2 * r > d \/ (2 * r = d /\ f % 2 = 1) THEN f + 1 ELSE f

\* k = OddPart(k) * 2^TwoAdic(k), for k > 0
RECURSIVE TwoAdic(_)
TwoAdic(k) == IF k % 2 = 0 THEN 1 + TwoAdic(k \div 2) ELSE 0

RECURSIVE OddPart(_)
OddPart(k) == IF k % 2 = 0 THEN OddPart(k \div 2) ELSE k

\* (a / d) * 2^e rounded to MantissaBits bits, for a > 0 and d > 0
RECURSIVE FlRound(_, _, _)
FlRound(a, d, e) ==
    IF a >= (2 ^ MantissaBits) * d THEN FlRound(a, 2 * d, e + 1)
    ELSE IF a < (2 ^ (MantissaBits - 1)) * d THEN FlRound(2 * a, d, e - 1)
    ELSE LET m == NearestEven(a, d)
         IN  IF e >= 0 THEN Rat(m * (2 ^ e), 1) ELSE Rat(m, 2 ^ (-e))

\* the float nearest to the rational x
Fl(x) ==
    IF x.n = 0 THEN Zero
    ELSE LET r == FlRound(OddPart(Abs(x.n)), OddPart(x.d),
                          TwoAdic(Abs(x.n)) - TwoAdic(x.d))
         IN  IF x.n < 0 THEN Rat(-r.n, r.d) ELSE r

\* a + b over the least common denominator
RAddL(a, b) ==
    LET l == (a.d \div GCD(a.d, b.d)) * b.d
    IN  Rat(a.n * (l \div a.d) + b.n * (l \div b.d), l)

FAdd(a, b) == Fl(RAddL(a, b))
FSub(a, b) == Fl(RAddL(a, Rat(-b.n, b.d)))
FMul(a, b) == Fl(RMul(a, b))
FDiv(a, b) == Fl(RDiv(a, b))

\* sum(xs): left to right from 0
RECURSIVE FSum(_)
FSum(xs) ==
    IF xs = <<>> THEN Zero
    ELSE FAdd(FSum(SubSeq(xs, 1, Len(xs) - 1)), xs[Len(xs)])

(***************************************************************************)
(* Portfolio._calculate_sharpe_ratio / Portfolio._calculate_max_drawdown   *)
(***************************************************************************)
SortedByDate_unsorted(daily_values) == daily_values

\* sorted(daily_values, key=date): ascending, entries of one date in the order
\* they have in the list
RECURSIVE SortedByDate(_)
SortedByDate(daily_values) ==
    IF daily_values = <<>> THEN <<>>
    ELSE LET first == CHOOSE d \in {daily_values[i].date :
                                        i \in 1..Len(daily_values)} :
                          \A i \in 1..Len(daily_values) :
                              d <= daily_values[i].date
             IsFirst(e) == e.date = first
             IsLater(e) == e.date # first
         IN  SelectSeq(daily_values, IsFirst)
                 \o SortedByDate(SelectSeq(daily_values, IsLater))

ValuesByDate(daily_values) ==
    LET sorted == SortedByDate(daily_values)
    IN  [i \in 1..Len(sorted) |-> sorted[i].value]

\* the returns (values[i] - prev) / prev for i from `from` on, a step from a
\* zero value left out
RECURSIVE ReturnsFrom(_, _)
ReturnsFrom(values, from) ==
    IF from > Len(values) THEN <<>>
    ELSE LET prev == values[from - 1]
         IN  (IF prev = Zero THEN <<>>
              ELSE <<FDiv(FSub(values[from], prev), prev)>>)
                 \o ReturnsFrom(values, from + 1)

Returns(daily_values) == ReturnsFrom(ValuesByDate(daily_values), 2)

MeanReturn(returns) == FDiv(FSum(returns), RInt(Len(returns)))

Variance(returns) ==
    LET mean_return == MeanReturn(returns)
    IN  FDiv(FSum([i \in 1..Len(returns) |->
                      FMul(FSub(returns[i], mean_return),
                           FSub(returns[i], mean_return))]),
             RInt(Len(returns)))

\* (mean_return / std_dev) * (252 ** 0.5) with std_dev = variance ** 0.5 > 0:
\* zero when the mean is, and otherwise kept as the two floats it is computed
\* from
Annualized(mean_return, variance) ==
    IF mean_return = Zero THEN Zero
    ELSE [mean_return |-> mean_return, variance |-> variance]

calculate_sharpe_ratio(self) ==
    IF Len(self.daily_values) < 2 THEN Zero
    ELSE LET returns == Returns(self.daily_values)
         IN  IF Len(returns) < 2 THEN Zero
             ELSE IF Variance(returns) = Zero THEN Zero
             ELSE Annualized(MeanReturn(returns), Variance(returns))

\* the loop of _calculate_max_drawdown over values[1..i]
RECURSIVE DrawdownLoop(_, _)
DrawdownLoop(values, i) ==
    IF i = 0 THEN [peak |-> values[1], max_drawdown |-> Zero]
    ELSE LET before   == DrawdownLoop(values, i - 1)
             peak     == IF RLt(before.peak, values[i])
                         THEN values[i] ELSE before.peak
             drawdown == RDiv(RSub(peak, values[i]), peak)
         IN  [peak |-> peak,
              max_drawdown |->
                  IF RLt(Zero, peak) /\ RLt(before.max_drawdown, drawdown)
                  THEN drawdown ELSE before.max_drawdown]

calculate_max_drawdown(self) ==
    IF Len(self.daily_values) < 2 THEN Zero
    ELSE LET values == ValuesByDate(self.daily_values)
         IN  RMul(DrawdownLoop(values, Len(values)).max_drawdown, RInt(100))

(***************************************************************************)
(* Decision engine of modules/decision/engine.py.                          *)
(*                                                                         *)
(* The engine keeps no state: a call is determined by its arguments and by *)
(* what the providers it consults give, which is the record env:           *)
(*   use_mocks   the toggle USE_MOCKS: whether the names get_forecast,     *)
(*               get_sentiment and get_anomalies are bound;                *)
(*   forecast, sentiment, anomalies, technical, memory                     *)
(*               what each provider does when called: it raises, or it     *)
(*               returns a result.                                         *)
(* Scores, trends and confidences are exact rationals.                     *)
(***************************************************************************)
WEIGHTS == [forecast |-> Rat(40, 100), sentiment |-> Rat(30, 100),
            anomaly |-> Rat(20, 100), technical |-> Rat(10, 100)]

THRESHOLDS == [buy |-> RInt(3), sell |-> RInt(-3), strong_signal |-> RInt(5)]

PROFILE_MULTIPLIERS ==
    [conservative |-> Rat(5, 10), moderate |-> RInt(1), aggressive |-> Rat(12, 10)]

STOCK_NAMES ==
    [TN0001100254 |-> "SFBT", TN0001600154 |-> "ATTIJARI BANK",
     TN0001800457 |-> "BIAT", TN0001800853 |-> "BH",
     TN0001900604 |-> "TUNISAIR", TN0003600154 |-> "AMEN BANK",
     TN0003800200 |-> "STB", TN0006700406 |-> "POULINA"]

RAbs(x) == Rat(Abs(x.n), x.d)
RMin(a, b) == IF RLe(a, b) THEN a ELSE b
RMax(a, b) == IF RLe(a, b) THEN b ELSE a

Raised(e) == [raises |-> TRUE, error |-> e]

\* a dict without entries
NoSignal == [k \in {} |-> Zero]

\* what the call of a signal adapter does: with USE_MOCKS off the names of the
\* first three are not bound
Adapter(env, name) ==
    IF ~env.use_mocks /\ name \in {"forecast", "sentiment", "anomalies"}
    THEN Raised("NameError")
    ELSE env[name]

get_stock_name(stock_code, env) ==
    IF stock_code \in DOMAIN STOCK_NAMES THEN STOCK_NAMES[stock_code]
    ELSE stock_code

\* the last close of a known code; of a code without data 0.0, or 10.0 from
\* the mock
get_current_price(stock_code, env) ==
    IF stock_code \in DOMAIN STOCK_NAMES THEN Rat(5150, 100)
    ELSE IF env.use_mocks THEN RInt(10) ELSE Zero

\* forecast block: points added to the score
ForecastPoints_uncapped(forecast) ==
    IF forecast.raises THEN Zero
    ELSE IF RLt(Rat(2, 100), forecast.trend) \/ RLt(forecast.trend, Rat(-2, 100))
         THEN RMul(forecast.trend, RInt(100))
         ELSE Zero

ForecastPoints(forecast) ==
    IF forecast.raises THEN Zero
    ELSE IF RLt(Rat(2, 100), forecast.trend)
         THEN RMin(RMul(forecast.trend, RInt(100)), RInt(4))
         ELSE IF RLt(forecast.trend, Rat(-2, 100))
              THEN RMax(RMul(forecast.trend, RInt(100)), RInt(-4))
              ELSE Zero

ForecastSignal(forecast) ==
    IF forecast.raises
    THEN [error |-> forecast.error, direction |-> "unknown", magnitude |-> Zero]
    ELSE [direction   |-> IF RLt(Rat(2, 100), forecast.trend) THEN "up"
                          ELSE IF RLt(forecast.trend, Rat(-2, 100)) THEN "down"
                          ELSE "stable",
          magnitude   |-> RAbs(forecast.trend),
          confidence  |-> forecast.confidence,
          weight      |-> WEIGHTS.forecast,
          predictions |-> forecast.predictions]

SentimentPoints_onerror(sentiment) ==
    IF sentiment.raises THEN RInt(-1)
    ELSE IF RLt(Rat(4, 10), sentiment.score) \/ RLt(sentiment.score, Rat(-4, 10))
         THEN RMul(sentiment.score, RInt(3))
         ELSE Zero

\* sentiment block
SentimentPoints(sentiment) ==
    IF sentiment.raises THEN Zero
    ELSE IF RLt(Rat(4, 10), sentiment.score) \/ RLt(sentiment.score, Rat(-4, 10))
         THEN RMul(sentiment.score, RInt(3))
         ELSE Zero

SentimentSignal(sentiment) ==
    IF sentiment.raises
    THEN [error |-> sentiment.error, score |-> Zero]
    ELSE [score        |-> sentiment.score,
          num_articles |-> sentiment.num_articles,
          headlines    |-> sentiment.sample_headlines,
          weight       |-> WEIGHTS.sentiment]

\* anomaly block: three independent tests
AnomalyPoints(anomalies) ==
    IF anomalies.raises THEN Zero
    ELSE RAdd(RAdd(IF anomalies.volume_spike THEN RInt(-2) ELSE Zero,
                   IF anomalies.price_spike THEN RInt(-1) ELSE Zero),
              IF ~anomalies.any_anomaly THEN RInt(1) ELSE Zero)

AnomalySignal(anomalies) ==
    IF anomalies.raises
    THEN [error |-> anomalies.error, detected |-> FALSE]
    ELSE [detected      |-> anomalies.any_anomaly,
          volume_spike  |-> anomalies.volume_spike,
          price_spike   |-> anomalies.price_spike,
          anomaly_score |-> anomalies.anomaly_score,
          details       |-> anomalies.details,
          weight        |-> WEIGHTS.anomaly]

\* technical block: rsi is <<>> for None and <<r>> for the number r, macd is
\* <<>> for None and <<m>> for the dict m
TechnicalPoints(technical) ==
    IF technical.raises THEN Zero
    ELSE LET rsi == technical.rsi
             macd_trend == IF technical.macd # <<>>
                           THEN technical.macd[1].trend ELSE ""
         IN  RAdd(IF rsi # <<>> /\ RLt(rsi[1], RInt(30)) THEN Rat(15, 10)
                  ELSE IF rsi # <<>> /\ RLt(RInt(70), rsi[1]) THEN Rat(-15, 10)
                  ELSE Zero,
                  IF macd_trend = "bullish" THEN Rat(5, 10)
                  ELSE IF macd_trend = "bearish" THEN Rat(-5, 10)
                  ELSE Zero)

\* signals['technical'], set unless both indicators are None
TechnicalSignal(technical) ==
    IF technical.raises THEN "technical" :> [error |-> technical.error]
    ELSE LET rsi == technical.rsi
             macd_trend == IF technical.macd # <<>>
                           THEN technical.macd[1].trend ELSE ""
             rsi_signal == IF rsi # <<>> /\ RLt(rsi[1], RInt(30)) THEN "oversold"
                           ELSE IF rsi # <<>> /\ RLt(RInt(70), rsi[1])
                                THEN "overbought"
                                ELSE "neutral"
         IN  IF rsi # <<>> \/ technical.macd # <<>>
             THEN "technical" :>
                      [rsi    |-> rsi,
                       macd   |-> technical.macd,
                       signal |-> IF macd_trend # "" THEN macd_trend
                                  ELSE rsi_signal,
                       weight |-> WEIGHTS.technical]
             ELSE NoSignal

\* signals['memory']: {} when the memory store raises, the evidence found per
\* collection when it is available, not set otherwise
MemorySignal(memory) ==
    IF memory.raises THEN "memory" :> << >>
    ELSE IF memory.available THEN "memory" :> memory.evidence
    ELSE NoSignal

\* the score: the points of the four blocks added to 0.0 in turn
DecisionScore(stock_code, env) ==
    RAdd(RAdd(RAdd(RAdd(Zero, ForecastPoints(Adapter(env, "forecast"))),
                   SentimentPoints(Adapter(env, "sentiment"))),
              AnomalyPoints(Adapter(env, "anomalies"))),
         TechnicalPoints(Adapter(env, "technical")))

DecisionSignals(stock_code, env) ==
    ("forecast" :> ForecastSignal(Adapter(env, "forecast")))
    @@ ("sentiment" :> SentimentSignal(Adapter(env, "sentiment")))
    @@ ("anomaly" :> AnomalySignal(Adapter(env, "anomalies")))
    @@ TechnicalSignal(Adapter(env, "technical"))
    @@ MemorySignal(env.memory)

calculate_decision_score(stock_code, env) ==
    [score   |-> DecisionScore(stock_code, env),
     signals |-> DecisionSignals(stock_code, env)]

(***************************************************************************)
(* _score_to_recommendation                                                *)
(***************************************************************************)
BuyThreshold(user_profile) ==
    IF user_profile = "conservative" THEN RInt(4)
    ELSE IF user_profile = "aggressive" THEN RInt(2)
    ELSE THRESHOLDS.buy

SellThreshold(user_profile) ==
    IF user_profile = "conservative" THEN RInt(-4)
    ELSE IF user_profile = "aggressive" THEN RInt(-2)
    ELSE THRESHOLDS.sell

IsBuy_strict(score, buy_threshold) == RLt(buy_threshold, score)
IsBuy(score, buy_threshold) == RLe(buy_threshold, score)

Confidence_uncapped(excess) == RAdd(Rat(5, 10), RMul(excess, Rat(1, 10)))
\* min(0.5 + excess * 0.1, 0.95)
Confidence(excess) ==
    RMin(RAdd(Rat(5, 10), RMul(excess, Rat(1, 10))), Rat(95, 100))

score_to_recommendation(score, user_profile, half) ==
    LET buy_threshold  == BuyThreshold(user_profile)
        sell_threshold == SellThreshold(user_profile)
    IN  IF IsBuy(score, buy_threshold)
        THEN [recommendation |-> "BUY",
              confidence |-> RoundFloat(Confidence(RSub(score, buy_threshold)),
                                        100, half)]
        ELSE IF RLe(score, sell_threshold)
        THEN [recommendation |-> "SELL",
              confidence |-> RoundFloat(Confidence(RSub(RAbs(score),
                                                        RAbs(sell_threshold))),
                                        100, half)]
        ELSE [recommendation |-> "HOLD",
              confidence |-> RoundFloat(RAdd(Rat(5, 10),
                                             RMul(RAbs(score), Rat(5, 100))),
                                        100, half)]

(***************************************************************************)
(* _assess_risk / _generate_suggested_action                               *)
(***************************************************************************)
RiskTally(signals, score) ==
    LET anomaly   == signals["anomaly"]
        forecast  == signals["forecast"]
        sentiment == signals["sentiment"]
        technical == Get(signals, "technical", NoSignal)
        rsi       == Get(technical, "rsi", <<RInt(50)>>)
    IN    (IF Get(anomaly, "detected", FALSE) THEN 2 ELSE 0)
        + (IF RLt(Rat(7, 10), Get(anomaly, "anomaly_score", Zero)) THEN 1 ELSE 0)
        + (IF RLt(Get(forecast, "confidence", RInt(1)), Rat(5, 10)) THEN 1 ELSE 0)
        + (IF RLt(Rat(8, 10), RAbs(Get(sentiment, "score", Zero))) THEN 1 ELSE 0)
        + (IF rsi # <<>> /\ rsi[1] # Zero
              /\ (RLt(rsi[1], RInt(20)) \/ RLt(RInt(80), rsi[1]))
           THEN 1 ELSE 0)
        + (IF RLt(RInt(7), RAbs(score)) THEN 1 ELSE 0)

assess_risk(signals, score) ==
    LET risk_score == RiskTally(signals, score)
    IN  IF risk_score <= 1 THEN "LOW"
        ELSE IF risk_score <= 3 THEN "MEDIUM"
        ELSE "HIGH"

\* the sentence chosen and the values it is filled with
generate_suggested_action(recommendation, stock_name, current_price, confidence, user_profile) ==
    LET qty_range == IF user_profile = "conservative" THEN "20-50"
                     ELSE IF user_profile = "aggressive" THEN "100-200"
                     ELSE "50-100"
        action_modifier == IF user_profile = "conservative"
                           THEN "prudemment" ELSE ""
        sure == RLe(Rat(7, 10), confidence)
    IN  IF recommendation = "BUY"
        THEN IF sure
             THEN <<"Acheter", action_modifier, qty_range, stock_name,
                    Round(current_price, 100)>>
             ELSE <<"Envisager l'achat", qty_range>>
        ELSE IF recommendation = "SELL"
        THEN IF sure
             THEN <<"Vendre", action_modifier, stock_name,
                    Round(current_price, 100)>>
             ELSE <<"Envisager de reduire votre position">>
        ELSE <<"Conserver", stock_name>>

(***************************************************************************)
(* explainer.generate_explanation / generate_short_explanation: the text   *)
(* is kept as the choices that determine it.                               *)
(***************************************************************************)
\* `rsi < 30` on the RSI entry of the technical signal raises for None
ExplanationRaises(signals) ==
    /\ "technical" \in DOMAIN signals
    /\ "rsi" \in DOMAIN signals["technical"]
    /\ signals["technical"].rsi = <<>>

generate_explanation(data) ==
    LET signals   == data.signals
        sentiment == Get(signals["sentiment"], "score", Zero)
        technical == Get(signals, "technical", NoSignal)
        memory    == Get(signals, "memory", <<>>)
    IN  [header     |-> <<data.recommendation, data.stock_name>>,
         confidence |-> Round(data.confidence, 100),
         forecast   |-> <<Get(signals["forecast"], "direction", "stable"),
                          Round(Get(signals["forecast"], "magnitude", Zero),
                                1000)>>,
         sentiment  |-> <<IF RLt(Rat(3, 10), sentiment) THEN "positif"
                          ELSE IF RLt(sentiment, Rat(-3, 10)) THEN "negatif"
                          ELSE "neutre",
                          Round(sentiment, 100),
                          Get(signals["sentiment"], "num_articles", 0)>>,
         anomaly    |-> <<Get(signals["anomaly"], "detected", FALSE),
                          Get(signals["anomaly"], "details", "")>>,
         rsi        |-> IF "rsi" \in DOMAIN technical
                        THEN <<Round(technical.rsi[1], 10),
                               IF RLt(technical.rsi[1], RInt(30))
                               THEN "SURVENTE"
                               ELSE IF RLt(RInt(70), technical.rsi[1])
                                    THEN "SURACHAT"
                                    ELSE "zone neutre">>
                        ELSE <<>>,
         memory     |-> IF memory = <<>> THEN "Mode offline" ELSE memory,
         risk       |-> data.risk_level,
         suggested  |-> data.suggested_action]

generate_short_explanation(data) ==
    IF data.recommendation = "BUY"
    THEN <<"ACHETER", data.stock_name, Round(data.confidence, 100)>>
    ELSE IF data.recommendation = "SELL"
    THEN <<"VENDRE", data.stock_name, Round(data.confidence, 100)>>
    ELSE <<"CONSERVER", data.stock_name>>

(***************************************************************************)
(* make_recommendation                                                     *)
(***************************************************************************)
ProfileMultiplier(user_profile) ==
    IF user_profile \in DOMAIN PROFILE_MULTIPLIERS
    THEN PROFILE_MULTIPLIERS[user_profile]
    ELSE RInt(1)

make_recommendation(stock_code, user_profile, env, ts, half) ==
    LET stock_name     == get_stock_name(stock_code, env)
        current_price  == get_current_price(stock_code, env)
        scored         == calculate_decision_score(stock_code, env)
        adjusted_score == RMul(scored.score, ProfileMultiplier(user_profile))
        rec            == score_to_recommendation(adjusted_score, user_profile,
                                                  half)
        result0 ==
            [stock_code       |-> stock_code,
             stock_name       |-> stock_name,
             current_price    |-> current_price,
             recommendation   |-> rec.recommendation,
             confidence       |-> rec.confidence,
             score            |-> Round(adjusted_score, 100),
             raw_score        |-> Round(scored.score, 100),
             signals          |-> scored.signals,
             risk_level       |-> assess_risk(scored.signals, scored.score),
             suggested_action |-> generate_suggested_action(
                                      rec.recommendation, stock_name,
                                      current_price, rec.confidence,
                                      user_profile),
             user_profile     |-> user_profile,
             timestamp        |-> ts]
    IN  IF ExplanationRaises(scored.signals)
        THEN [raised |-> "TypeError"]
        ELSE result0 @@ [explanation       |-> generate_explanation(result0),
                         short_explanation |->
                             generate_short_explanation(result0)]

(***************************************************************************)
(* get_top_recommendations / get_market_summary                            *)
(*                                                                         *)
(* market maps every code of the price data to the outputs its adapters    *)
(* give; call i of a batch reads the clock at ts + i.                      *)
(***************************************************************************)
\* the codes in sorted order
AllStockCodes ==
    <<"TN0001100254", "TN0001600154", "TN0001800457", "TN0001800853",
      "TN0001900604", "TN0003600154", "TN0003800200", "TN0006700406">>

get_all_stock_codes(market) ==
    LET HasData(code) == code \in DOMAIN market
    IN  SelectSeq(AllStockCodes, HasData)

NotRaised(rec) == "raised" \notin DOMAIN rec

\* for code in stock_codes: try: append(make_recommendation(code, profile))
\* except: continue
AnalyzeAll(user_profile, market, ts, half) ==
    LET stock_codes == get_all_stock_codes(market)
        rec == [i \in 1..Len(stock_codes) |->
                   make_recommendation(stock_codes[i], user_profile,
                                       market[stock_codes[i]], ts + i, half)]
    IN  SelectSeq(rec, NotRaised)

\* entries [key, item] by descending key, entries of one key in the order
\* they have in the list
RECURSIVE SortedByKey(_)
SortedByKey(entries) ==
    IF entries = <<>> THEN <<>>
    ELSE LET top == CHOOSE k \in {entries[i].key : i \in 1..Len(entries)} :
                        \A i \in 1..Len(entries) : RLe(entries[i].key, k)
             IsTop(e)   == e.key = top
             IsBelow(e) == e.key # top
         IN  SelectSeq(entries, IsTop)
             \o (CHOOSE s \in {SortedByKey(below) :
                                  below \in {SelectSeq(entries, IsBelow)}} : TRUE)

Items(entries) == [i \in 1..Len(entries) |-> entries[i].item]

\* recs.sort(key=lambda x: abs(x['score']), reverse=True)
StrongestFirst_unsorted(recs) == recs
StrongestFirst(recs) ==
    Items(SortedByKey([i \in 1..Len(recs) |->
                          [key |-> RAbs(recs[i].score), item |-> recs[i]]]))

\* sorted(recs, key=lambda x: x['score'], reverse=True)
HighestFirst(recs) ==
    Items(SortedByKey([i \in 1..Len(recs) |->
                          [key |-> recs[i].score, item |-> recs[i]]]))

\* sorted(recs, key=lambda x: x['score'])
LowestFirst(recs) ==
    Items(SortedByKey([i \in 1..Len(recs) |->
                          [key |-> RSub(Zero, recs[i].score), item |-> recs[i]]]))

get_top_recommendations(n, user_profile, recommendation_type, market, ts, half) ==
    LET IsBuyRec(r)  == r.recommendation = "BUY"
        IsSellRec(r) == r.recommendation = "SELL"
        Filtered(all_recommendations) ==
            IF recommendation_type = "buy"
            THEN SelectSeq(all_recommendations, IsBuyRec)
            ELSE IF recommendation_type = "sell"
            THEN SelectSeq(all_recommendations, IsSellRec)
            ELSE all_recommendations
    IN  CHOOSE top \in
            {Prefix(StrongestFirst(filtered), n) :
                 filtered \in {Filtered(AnalyzeAll(user_profile, market, ts,
                                                   half))}} : TRUE

\* the alerts of the recommendations, in their order
RECURSIVE Alerts(_)
Alerts(recs) ==
    IF recs = <<>> THEN <<>>
    ELSE LET rec == Head(recs)
         IN  (IF Get(Get(rec.signals, "anomaly", NoSignal), "detected", FALSE)
              THEN <<[alert |-> "Anomalie detectee", stock_name |-> rec.stock_name]>>
              ELSE <<>>)
             \o (IF RLe(Rat(8, 10), rec.confidence)
                 THEN <<[alert |-> "Signal fort",
                         recommendation |-> rec.recommendation,
                         stock_name |-> rec.stock_name]>>
                 ELSE <<>>)
             \o Alerts(Tail(recs))

AlertLimit_none(alerts) == alerts
\* alerts[:10]
AlertLimit(alerts) == Prefix(alerts, 10)

get_market_summary(user_profile, market, ts, half) ==
    LET IsBuyRec(r)  == r.recommendation = "BUY"
        IsSellRec(r) == r.recommendation = "SELL"
        IsHoldRec(r) == r.recommendation = "HOLD"
        Summary(all_recs, buy_count, sell_count, hold_count) ==
            [overall_sentiment |-> IF 2 * buy_count > 3 * sell_count THEN "HAUSSIER"
                                   ELSE IF 2 * sell_count > 3 * buy_count
                                        THEN "BAISSIER"
                                        ELSE "NEUTRE",
             buy_signals    |-> buy_count,
             sell_signals   |-> sell_count,
             hold_signals   |-> hold_count,
             total_analyzed |-> Len(all_recs),
             top_buys       |-> Prefix(HighestFirst(SelectSeq(all_recs, IsBuyRec)), 5),
             top_sells      |-> Prefix(LowestFirst(SelectSeq(all_recs, IsSellRec)), 5),
             alerts         |-> AlertLimit(Alerts(all_recs)),
             timestamp      |-> ts + Len(get_all_stock_codes(market)) + 1]
    IN  CHOOSE summary \in
            {Summary(all_recs, Len(SelectSeq(all_recs, IsBuyRec)),
                     Len(SelectSeq(all_recs, IsSellRec)),
                     Len(SelectSeq(all_recs, IsHoldRec))) :
                 all_recs \in {AnalyzeAll(user_profile, market, ts, half)}} :
            TRUE

(***************************************************************************)
(* The program: one Portfolio object, driven by its callers.               *)
(***************************************************************************)
\* datetime.now() as read by a call: the wall clock has advanced since the
\* previous call.
Later == {now + 1}

\* current_prices arguments: any partial map of codes to prices, and the ones
\* used for snapshots
PriceVectors == UNION {[S -> {RInt(p) : p \in Prices}] : S \in SUBSET Codes}
SnapVectors == {cp \in PriceVectors :
                   \/ DOMAIN cp = {}
                   \/ DOMAIN cp = Codes /\ \A c \in Codes : cp[c] = RInt(2)}

Init ==
    /\ \E c \in Capitals : portfolio = NewPortfolio(c, "Demo Portfolio", 0)
    /\ now = 0
    /\ call = [op |-> "init"]
    /\ result = [success |-> TRUE]

BuyAt(T, maxTx) ==
    /\ Len(portfolio.transaction_history) < maxTx
    /\ \E sc \in Codes, p \in Prices, q \in Quantities, d \in Dates, ts \in T :
         \E r \in {buy(portfolio, sc, StockName(sc), p, q, d, ts)} :
             /\ portfolio' = r.self
             /\ result' = r.ret
             /\ call' = [op |-> "buy", stock_code |-> sc, price |-> p,
                         quantity |-> q, date |-> d]
             /\ now' = IF r.ret.success THEN ts ELSE now

SellAt(T, maxTx) ==
    /\ Len(portfolio.transaction_history) < maxTx
    /\ \E sc \in Codes, p \in Prices, q \in Quantities, d \in Dates, ts \in T :
         \E r \in {sell(portfolio, sc, p, q, d, ts)} :
             /\ portfolio' = r.self
             /\ result' = r.ret
             /\ call' = [op |-> "sell", stock_code |-> sc, price |-> p,
                         quantity |-> q, date |-> d]
             /\ now' = IF r.ret.success THEN ts ELSE now

TakeSnapshot ==
    /\ Len(portfolio.daily_snapshots) < MaxSnap
    /\ \E cp \in SnapVectors, d \in Dates :
         /\ portfolio' = take_snapshot(portfolio, cp, d, now + 1)
         /\ result' = [success |-> TRUE]
         /\ call' = [op |-> "take_snapshot", current_prices |-> cp, date |-> d]
         /\ now' = now + 1

\* the portfolio is saved and reloaded: portfolio = from_dict(portfolio.to_dict())
Restore ==
    /\ portfolio' = from_dict(to_dict(portfolio), now)
    /\ result' = [success |-> TRUE]
    /\ call' = [op |-> "from_dict"]
    /\ now' = now

(***************************************************************************)
(* Spec: the ledger under buy and sell calls.                              *)
(***************************************************************************)
Buy == BuyAt(Later, MaxTx)
Sell == SellAt(Later, MaxTx)

Next == Buy \/ Sell

Spec == Init /\ [][Next]_vars

(***************************************************************************)
(* SpecSer: the ledger with valuation snapshots and save/reload.           *)
(***************************************************************************)
SerBuy == BuyAt(Later, MaxSerTx)
SerSell == SellAt(Later, MaxSerTx)

NextSer == SerBuy \/ SerSell \/ TakeSnapshot \/ Restore

SpecSer == Init /\ [][NextSer]_vars

(***************************************************************************)
(* SpecAlloc: a portfolio that opens one position after another and is     *)
(* asked for its allocation.                                               *)
(***************************************************************************)
MaxPositions == 22

AllocCodeList ==
    <<"S01", "S02", "S03", "S04", "S05", "S06", "S07", "S08", "S09", "S10",
      "S11", "S12", "S13", "S14", "S15", "S16", "S17", "S18", "S19", "S20",
      "S21", "S22", "S23", "S24">>
AllocCapitals == {0, 2300}
AllocBuyPrices == {10, 15}
AllocVectors == {NoPrices, "S01" :> RInt(20), "S01" :> Zero}

InitAlloc ==
    /\ \E c \in AllocCapitals :
           portfolio = NewPortfolio(c, "Demo Portfolio", 0)
    /\ now = 0
    /\ call = [op |-> "init"]
    /\ result = [success |-> TRUE]

\* buy one share of the next code of the list, never below the last price paid
AllocBuy ==
    LET k == Cardinality(DOMAIN portfolio.holdings)
        h == portfolio.transaction_history
    IN  /\ k < MaxPositions
        /\ \E p \in AllocBuyPrices, ts \in Later :
             /\ h # <<>> => p >= h[Len(h)].price
             /\ \E r \in {buy(portfolio, AllocCodeList[k + 1],
                              AllocCodeList[k + 1], p, 1, 1, ts)} :
                  /\ portfolio' = r.self
                  /\ result' = r.ret
                  /\ call' = [op |-> "buy", stock_code |-> AllocCodeList[k + 1],
                              price |-> p, quantity |-> 1, date |-> 1]
                  /\ now' = IF r.ret.success THEN ts ELSE now

Allocate ==
    \E cp \in AllocVectors :
        /\ result' = [allocation |-> get_allocation(portfolio, cp)]
        /\ call' = [op |-> "get_allocation", current_prices |-> cp]
        /\ UNCHANGED <<portfolio, now>>

NextAlloc == AllocBuy \/ Allocate

SpecAlloc == InitAlloc /\ [][NextAlloc]_vars

(***************************************************************************)
(* SpecVal: one instrument traded over several dates, in any order of the  *)
(* dates, at the price quoted for the date.                                *)
(***************************************************************************)
MaxValTx == 4

ValCapitals == {250}
ValDates == 1..4
\* the prices quoted on each date
ValPrices == <<{50}, {60}, {40, 75}, {99}>>
ValBuyQuantities == {1, 5}
ValSellQuantities == {1}

InitVal ==
    /\ \E c \in ValCapitals : portfolio = NewPortfolio(c, "Demo Portfolio", 0)
    /\ now = 0
    /\ call = [op |-> "init"]
    /\ result = [success |-> TRUE]

ValBuy ==
    /\ Len(portfolio.transaction_history) < MaxValTx
    /\ \E d \in ValDates, q \in ValBuyQuantities, ts \in Later :
         \E p \in ValPrices[d] :
           \E r \in {buy(portfolio, "A", StockName("A"), p, q, d, ts)} :
               /\ portfolio' = r.self
               /\ result' = r.ret
               /\ call' = [op |-> "buy", stock_code |-> "A", price |-> p,
                           quantity |-> q, date |-> d]
               /\ now' = IF r.ret.success THEN ts ELSE now

ValSell ==
    /\ Len(portfolio.transaction_history) < MaxValTx
    /\ \E d \in ValDates, q \in ValSellQuantities, ts \in Later :
         \E p \in ValPrices[d] :
           \E r \in {sell(portfolio, "A", p, q, d, ts)} :
               /\ portfolio' = r.self
               /\ result' = r.ret
               /\ call' = [op |-> "sell", stock_code |-> "A", price |-> p,
                           quantity |-> q, date |-> d]
               /\ now' = IF r.ret.success THEN ts ELSE now

NextVal == ValBuy \/ ValSell

SpecVal == InitVal /\ [][NextVal]_vars

(***************************************************************************)
(* SpecEngine: make_recommendation called for one code and profile while   *)
(* the providers keep giving the same thing.                               *)
(***************************************************************************)
MaxCalls == 1

EngineCodes == {"TN0001600154", "TN0000000000"}
Profiles == {"conservative", "moderate", "aggressive", "balanced"}

ForecastOutcomes ==
    {Raised("forecast failed")}
    \cup {[raises |-> FALSE, trend |-> Rat(f[1], 100),
           confidence |-> Rat(f[2], 10), predictions |-> <<>>] :
             f \in {<<-5, 8>>, <<2, 8>>, <<3, 8>>, <<5, 4>>}}

SentimentOutcomes ==
    {Raised("sentiment failed")}
    \cup {[raises |-> FALSE, score |-> Rat(s, 10), num_articles |-> 3,
           sample_headlines |-> <<>>] : s \in {-10, 4, 5}}

\* <<any_anomaly, volume_spike, price_spike>>: a spike is an anomaly, and an
\* anomaly can be of another kind than the two spikes
AnomalyOutcomes ==
    {Raised("anomaly failed")}
    \cup {[raises |-> FALSE, any_anomaly |-> a[1], volume_spike |-> a[2],
           price_spike |-> a[3],
           anomaly_score |-> IF a[2] /\ a[3] THEN Rat(8, 10) ELSE Rat(2, 10),
           details |-> ""] :
             a \in {<<FALSE, FALSE, FALSE>>, <<TRUE, FALSE, FALSE>>,
                    <<TRUE, FALSE, TRUE>>, <<TRUE, TRUE, TRUE>>}}

\* a code without price rows has neither indicator
TechnicalOutcomes(stock_code) ==
    {Raised("technical failed")}
    \cup {[raises |-> FALSE, rsi |-> r, macd |-> m] :
             r \in {<<>>} \cup (IF stock_code \in DOMAIN STOCK_NAMES
                                THEN {<<RInt(0)>>, <<RInt(50)>>, <<RInt(85)>>}
                                ELSE {}),
             m \in {<<>>} \cup (IF stock_code \in DOMAIN STOCK_NAMES
                                THEN {<<[trend |-> "bullish"]>>,
                                      <<[trend |-> "bearish"]>>}
                                ELSE {})}

MemoryOutcomes ==
    {Raised("memory failed"),
     [raises |-> FALSE, available |-> TRUE,
      evidence |-> [news |-> <<[text |-> "note", score |-> Rat(5, 10)]>>,
                    anomalies |-> <<>>, recommendations |-> <<>>]]}

Envs(stock_code) ==
    [use_mocks : BOOLEAN, forecast : ForecastOutcomes,
     sentiment : SentimentOutcomes, anomalies : AnomalyOutcomes,
     technical : TechnicalOutcomes(stock_code), memory : MemoryOutcomes]

InitEngine ==
    /\ portfolio = NewPortfolio(1000000, "Demo Portfolio", 0)
    /\ now = 0
    /\ \E sc \in EngineCodes, up \in Profiles :
         \E env \in Envs(sc) :
           call = [op |-> "request", stock_code |-> sc, user_profile |-> up,
                   env |-> env]
    /\ result = [success |-> TRUE]

Recommend ==
    /\ now < MaxCalls
    /\ \E ts \in Later, half \in HalfWays :
         /\ result' = make_recommendation(call.stock_code, call.user_profile,
                                          call.env, ts, half)
         /\ call' = [call EXCEPT !.op = "make_recommendation"]
         /\ now' = ts
    /\ UNCHANGED portfolio

NextEngine == Recommend

SpecEngine == InitEngine /\ [][NextEngine]_vars

(***************************************************************************)
(* make_recommendation called repeatedly for one instrument and profile    *)
(* while the adapters keep returning the same outputs.  result is the      *)
(* sequence of the values returned so far.                                 *)
(***************************************************************************)
MaxRepeat == 2

RepeatEnvs(stock_code) ==
    {env \in Envs(stock_code) : env.use_mocks /\ ~env.memory.raises}

\* the float operations of a repeated call are those of the first call, so
\* a confidence at a tie is rounded to the same side again
RepeatHalves_any(half) == HalfWays
RepeatHalves(half) == {half}

InitRepeat ==
    /\ portfolio = NewPortfolio(1000000, "Demo Portfolio", 0)
    /\ now = 0
    /\ \E sc \in EngineCodes, up \in Profiles, half \in HalfWays :
         \E env \in RepeatEnvs(sc) :
           call = [op |-> "request", stock_code |-> sc, user_profile |-> up,
                   env |-> env, half |-> half]
    /\ result = <<>>

RecommendAgain ==
    /\ Len(result) < MaxRepeat
    /\ \E ts \in Later, half \in RepeatHalves(call.half) :
         /\ result' = Append(result,
                             make_recommendation(call.stock_code,
                                                 call.user_profile, call.env,
                                                 ts, half))
         /\ call' = [call EXCEPT !.op = "make_recommendation"]
         /\ now' = ts
    /\ UNCHANGED portfolio

NextRepeat == RecommendAgain

SpecRepeat == InitRepeat /\ [][NextRepeat]_vars

(***************************************************************************)
(* A batch request over the instruments of the price data.                 *)
(***************************************************************************)
MaxBatch == 3

ForecastOf(trend, confidence) ==
    [raises |-> FALSE, trend |-> Rat(trend, 100),
     confidence |-> Rat(confidence, 10), predictions |-> <<>>]
SentimentOf(score) ==
    [raises |-> FALSE, score |-> Rat(score, 10), num_articles |-> 3,
     sample_headlines |-> <<>>]
AnomaliesOf(any_anomaly, volume_spike, price_spike) ==
    [raises |-> FALSE, any_anomaly |-> any_anomaly,
     volume_spike |-> volume_spike, price_spike |-> price_spike,
     anomaly_score |-> IF volume_spike /\ price_spike THEN Rat(8, 10)
                       ELSE Rat(2, 10),
     details |-> ""]
TechnicalOf(rsi, macd) == [raises |-> FALSE, rsi |-> rsi, macd |-> macd]

\* the adapter outputs of one instrument, with the mock providers
Scenario(forecast, sentiment, anomalies, technical) ==
    [use_mocks |-> TRUE, forecast |-> forecast, sentiment |-> sentiment,
     anomalies |-> anomalies, technical |-> technical,
     memory |-> Raised("memory failed")]

\* raw score 7.5 with an anomaly that is not a spike
StrongBuy ==
    Scenario(ForecastOf(5, 4), SentimentOf(5), AnomaliesOf(TRUE, FALSE, FALSE),
             TechnicalOf(<<RInt(0)>>, <<[trend |-> "bullish"]>>))
\* raw score 4 with a price spike
WeakBuy ==
    Scenario(ForecastOf(3, 8), SentimentOf(4), AnomaliesOf(TRUE, FALSE, TRUE),
             TechnicalOf(<<RInt(0)>>, <<[trend |-> "bullish"]>>))
\* raw score -6
StrongSell ==
    Scenario(ForecastOf(-5, 8), SentimentOf(-10), AnomaliesOf(FALSE, FALSE, FALSE),
             TechnicalOf(<<RInt(50)>>, <<>>))
\* raw score 1
Quiet ==
    Scenario(ForecastOf(2, 8), SentimentOf(4), AnomaliesOf(FALSE, FALSE, FALSE),
             TechnicalOf(<<RInt(50)>>, <<>>))
\* a MACD without an RSI: the explanation raises TypeError
Failing ==
    Scenario(ForecastOf(5, 4), SentimentOf(5), AnomaliesOf(TRUE, FALSE, FALSE),
             TechnicalOf(<<>>, <<[trend |-> "bullish"]>>))

BatchScenarios == {StrongBuy, WeakBuy, StrongSell, Quiet, Failing}
BatchProfiles == {"moderate", "aggressive"}
RecommendationTypes == {"all", "buy", "sell"}
TopNs == (-1)..MaxBatch

\* price data of the first k codes, each with one of the scenarios
Markets(k, scenarios) == [{AllStockCodes[i] : i \in 1..k} -> scenarios]

InitBatch ==
    /\ portfolio = NewPortfolio(1000000, "Demo Portfolio", 0)
    /\ now = 0
    /\ \E up \in BatchProfiles, market \in Markets(MaxBatch, BatchScenarios) :
         call = [op |-> "request", user_profile |-> up, market |-> market]
    /\ result = [success |-> TRUE]

TopRecommendations ==
    /\ call.op = "request"
    /\ \E n \in TopNs, type \in RecommendationTypes, half \in HalfWays :
         /\ result' = get_top_recommendations(n, call.user_profile, type,
                                              call.market, now, half)
         /\ call' = [op |-> "get_top_recommendations", n |-> n,
                     recommendation_type |-> type, half |-> half,
                     user_profile |-> call.user_profile,
                     market |-> call.market, ts |-> now]
    /\ now' = now + Len(get_all_stock_codes(call.market))
    /\ UNCHANGED portfolio

NextBatch == TopRecommendations

SpecBatch == InitBatch /\ [][NextBatch]_vars

(***************************************************************************)
(* A market summary over the instruments of the price data.                *)
(***************************************************************************)
MaxMarket == 6

MarketScenarios == {StrongBuy, StrongSell, Quiet, Failing}
MarketProfiles == {"moderate"}

InitMarket ==
    /\ portfolio = NewPortfolio(1000000, "Demo Portfolio", 0)
    /\ now = 0
    /\ \E up \in MarketProfiles, market \in Markets(MaxMarket, MarketScenarios) :
         call = [op |-> "request", user_profile |-> up, market |-> market]
    /\ result = [success |-> TRUE]

MarketSummary ==
    /\ call.op = "request"
    /\ \E half \in HalfWays :
         /\ result' = get_market_summary(call.user_profile, call.market, now,
                                         half)
         /\ call' = [op |-> "get_market_summary", half |-> half,
                     user_profile |-> call.user_profile,
                     market |-> call.market, ts |-> now]
    /\ now' = now + Len(get_all_stock_codes(call.market)) + 1
    /\ UNCHANGED portfolio

NextMarket == MarketSummary

SpecMarket == InitMarket /\ [][NextMarket]_vars

(***************************************************************************)
(* api.py: POST /api/portfolio/buy handled by the threads of the server on *)
(* the one global Portfolio.  Nothing in api.py or portfolio.py takes a    *)
(* lock, so another thread can run between any two steps of a handler; a   *)
(* switch is represented at one place, between the funds check of          *)
(* Portfolio.buy and the rest of it.  call[t] is the request thread t      *)
(* works on and how far it is, result[t] its response.                     *)
(***************************************************************************)
MaxRequests == 2

Threads == 1..MaxRequests
ApiCapital == 1000000
ApiCodes == {"TN0001600154", "TN0001800457"}
ApiQuantities == {0, 100, 150}

get_current_price_mock(stock_code) ==
    IF stock_code = "TN0001600154" THEN 5150
    ELSE IF stock_code = "TN0001800457" THEN 9390
    ELSE 1000

get_stock_name_mock(stock_code) ==
    IF stock_code = "TN0001600154" THEN "ATTIJARI BANK"
    ELSE IF stock_code = "TN0001800457" THEN "BIAT"
    ELSE stock_code

\* Portfolio.buy from `self.cash -= total_cost` on
buy_unchecked(self, stock_code, stock_name, price, quantity, date, ts) ==
    LET total_cost == price * quantity
        cash1 == self.cash - total_cost
        h0 == IF stock_code \notin DOMAIN self.holdings
              THEN [stock_name     |-> stock_name,
                    quantity       |-> 0,
                    avg_price      |-> Zero,
                    first_buy_date |-> date]
              ELSE self.holdings[stock_code]
        h1 == [stock_name     |-> h0.stock_name,
               quantity       |-> h0.quantity + quantity,
               avg_price      |-> NewAvgPrice(h0.quantity, h0.avg_price,
                                              quantity, price),
               first_buy_date |-> h0.first_buy_date,
               last_buy_date  |-> date]
        transaction == [type       |-> "BUY",
                        stock_code |-> stock_code,
                        stock_name |-> stock_name,
                        quantity   |-> quantity,
                        price      |-> price,
                        total      |-> total_cost,
                        date       |-> date,
                        timestamp  |-> ts,
                        cash_after |-> cash1]
        s1 == [self EXCEPT
                 !.cash = cash1,
                 !.holdings = (stock_code :> h1) @@ self.holdings,
                 !.transaction_history = AppendTx(@, transaction)]
    IN  [self |-> record_daily_value(s1, date, stock_code :> RInt(price)),
         ret  |-> [success     |-> TRUE,
                   message     |-> "Achat reussi",
                   transaction |-> transaction]]

InitApi ==
    /\ portfolio = NewPortfolio(ApiCapital, "Demo Portfolio", 0)
    /\ now = 0
    /\ call = [t \in Threads |-> [op |-> "idle"]]
    /\ result = [t \in Threads |-> [status |-> 0]]

\* execute_buy up to the call of portfolio.buy
ExecuteBuy(t) ==
    /\ call[t].op = "idle"
    /\ \E sc \in ApiCodes, q \in ApiQuantities :
         IF q <= 0
         THEN /\ call' = [call EXCEPT ![t] = [op |-> "done", stock_code |-> sc,
                                              quantity |-> q]]
              /\ result' = [result EXCEPT ![t] =
                               [status |-> 400,
                                error |-> "quantity must be positive"]]
         ELSE /\ call' = [call EXCEPT ![t] =
                             [op |-> "check", stock_code |-> sc, quantity |-> q,
                              stock_name |-> get_stock_name_mock(sc),
                              price |-> get_current_price_mock(sc)]]
              /\ UNCHANGED result
    /\ UNCHANGED <<portfolio, now>>

\* if total_cost > self.cash: return the failure
CheckFunds(t) ==
    /\ call[t].op = "check"
    /\ IF InsufficientFunds(call[t].price * call[t].quantity, portfolio.cash)
       THEN /\ call' = [call EXCEPT ![t].op = "done"]
            /\ result' = [result EXCEPT ![t] =
                             [status |-> 200, success |-> FALSE,
                              message |-> "Fonds insuffisants",
                              required |-> call[t].price * call[t].quantity,
                              available |-> portfolio.cash]]
       ELSE /\ call' = [call EXCEPT ![t].op = "deduct"]
            /\ UNCHANGED result
    /\ UNCHANGED <<portfolio, now>>

\* the rest of Portfolio.buy and the response
Deduct(t) ==
    /\ call[t].op = "deduct"
    /\ \E ts \in Later :
       \E r \in {buy_unchecked(portfolio, call[t].stock_code, call[t].stock_name,
                               call[t].price, call[t].quantity, 1, ts)} :
         /\ portfolio' = r.self
         /\ result' = [result EXCEPT ![t] = [status |-> 200] @@ r.ret]
         /\ now' = ts
    /\ call' = [call EXCEPT ![t].op = "done"]

NextApi ==
    \E t \in Threads : ExecuteBuy(t) \/ CheckFunds(t) \/ Deduct(t)

SpecApi == InitApi /\ [][NextApi]_vars

(***************************************************************************)
(* Portfolio.get_position_details                                          *)
(***************************************************************************)
\* the quantity held of a code after the first n transactions
RECURSIVE QuantityAfter(_, _, _)
QuantityAfter(history, stock_code, n) ==
    IF n = 0 THEN 0
    ELSE QuantityAfter(history, stock_code, n - 1)
         + (IF history[n].stock_code # stock_code THEN 0
            ELSE IF history[n].type = "BUY" THEN history[n].quantity
            ELSE 0 - history[n].quantity)

\* transaction n is the buy that put the key of today's holding in
\* self.holdings: the code was not held before it and is held ever since
OpensHolding(history, n) ==
    /\ history[n].type = "BUY"
    /\ QuantityAfter(history, history[n].stock_code, n - 1) = 0
    /\ \A j \in n..Len(history) :
           QuantityAfter(history, history[n].stock_code, j) > 0

\* the keys of self.holdings in the order of self.holdings.items(): a dict
\* keeps its keys in the order of their insertion
RECURSIVE HoldingsItems(_, _)
HoldingsItems(history, n) ==
    IF n = 0 THEN <<>>
    ELSE HoldingsItems(history, n - 1)
         \o (IF OpensHolding(history, n) THEN <<history[n].stock_code>>
             ELSE <<>>)

\* one entry of positions
PositionDetail(stock_code, holding, current_prices) ==
    LET current_price == PriceOf(current_prices, stock_code, holding)
        current_value == RMul(RInt(holding.quantity), current_price)
        cost_basis    == RMul(RInt(holding.quantity), holding.avg_price)
        gain_loss     == RSub(current_value, cost_basis)
        gain_loss_pct == IF RLt(Zero, cost_basis)
                         THEN RMul(RDiv(gain_loss, cost_basis), RInt(100))
                         ELSE Zero
    IN  [stock_code    |-> stock_code,
         stock_name    |-> holding.stock_name,
         quantity      |-> holding.quantity,
         avg_price     |-> Round(holding.avg_price, 10),
         current_price |-> Round(current_price, 10),
         cost_basis    |-> Round(cost_basis, 1),
         current_value |-> Round(current_value, 1),
         gain_loss     |-> Round(gain_loss, 1),
         gain_loss_pct |-> Round(gain_loss_pct, 100),
         is_profitable |-> RLt(Zero, gain_loss)]

\* positions.sort(key=lambda x: x['current_value'], reverse=True)
get_position_details(self, current_prices) ==
    LET codes == HoldingsItems(self.transaction_history,
                               Len(self.transaction_history))
        detail(i) == PositionDetail(codes[i], self.holdings[codes[i]],
                                    current_prices)
    IN  Items(SortedByKey([i \in 1..Len(codes) |->
                              [key  |-> detail(i).current_value,
                               item |-> detail(i)]]))

(***************************************************************************)
(* SpecRead: the ledger under buy and sell calls and the calls that report *)
(* on it.  The reporting methods assign to no attribute of self and to no  *)
(* entry of self.holdings or self.transaction_history.                     *)
(***************************************************************************)
MaxReadTx == 2
ReadVectors == {NoPrices, ("A" :> RInt(2)) @@ ("B" :> RInt(1))}

ReadBuy == BuyAt(Later, MaxReadTx)
ReadSell == SellAt(Later, MaxReadTx)

GetPerformanceMetrics ==
    \E cp \in ReadVectors :
        /\ result' = [ret |-> get_performance_metrics(portfolio, cp)]
        /\ call' = [op |-> "get_performance_metrics", current_prices |-> cp]
        /\ UNCHANGED <<portfolio, now>>

GetAllocation ==
    \E cp \in ReadVectors :
        /\ result' = [ret |-> get_allocation(portfolio, cp)]
        /\ call' = [op |-> "get_allocation", current_prices |-> cp]
        /\ UNCHANGED <<portfolio, now>>

GetPositionDetails ==
    \E cp \in ReadVectors :
        /\ result' = [ret |-> get_position_details(portfolio, cp)]
        /\ call' = [op |-> "get_position_details", current_prices |-> cp]
        /\ UNCHANGED <<portfolio, now>>

GetCurrentValue ==
    \E cp \in ReadVectors :
        /\ result' = [ret |-> get_current_value(portfolio, cp)]
        /\ call' = [op |-> "get_current_value", current_prices |-> cp]
        /\ UNCHANGED <<portfolio, now>>

NextRead ==
    \/ ReadBuy
    \/ ReadSell
    \/ GetPerformanceMetrics
    \/ GetAllocation
    \/ GetPositionDetails
    \/ GetCurrentValue

SpecRead == Init /\ [][NextRead]_vars

(***************************************************************************)
(* SpecLedger: Portfolio.buy and Portfolio.sell called directly, with any  *)
(* integer quantity.  The methods do not test the sign of quantity.        *)
(***************************************************************************)
MaxLedgerTx == 2
LedgerQuantities == {-1, 0, 1, 2}

LedgerBuy ==
    /\ Len(portfolio.transaction_history) < MaxLedgerTx
    /\ \E sc \in Codes, p \in Prices, q \in LedgerQuantities, ts \in Later :
         \E r \in {buy(portfolio, sc, StockName(sc), p, q, 1, ts)} :
             /\ portfolio' = r.self
             /\ result' = r.ret
             /\ call' = [op |-> "buy", stock_code |-> sc, price |-> p,
                         quantity |-> q, date |-> 1]
             /\ now' = IF r.ret.success THEN ts ELSE now

LedgerSell ==
    /\ Len(portfolio.transaction_history) < MaxLedgerTx
    /\ \E sc \in Codes, p \in Prices, q \in LedgerQuantities, ts \in Later :
         \E r \in {sell(portfolio, sc, p, q, 1, ts)} :
             /\ portfolio' = r.self
             /\ result' = r.ret
             /\ call' = [op |-> "sell", stock_code |-> sc, price |-> p,
                         quantity |-> q, date |-> 1]
             /\ now' = IF r.ret.success THEN ts ELSE now

NextLedger == LedgerBuy \/ LedgerSell

SpecLedger == Init /\ [][NextLedger]_vars

(***************************************************************************)
(* Properties of the ledger.                                               *)
(***************************************************************************)
History == portfolio.transaction_history
Holdings == portfolio.holdings

IsTrade(c) == c.op \in {"buy", "sell"}

\* sum of tx[field] over the transactions of the given type, left to right
RECURSIVE TotalOf(_, _, _)
TotalOf(history, type, n) ==
    IF n = 0 THEN 0
    ELSE TotalOf(history, type, n - 1)
         + (IF history[n].type = type THEN history[n].total ELSE 0)

RECURSIVE RealizedOf(_, _)
RealizedOf(history, n) ==
    IF n = 0 THEN Zero
    ELSE RAdd(RealizedOf(history, n - 1),
              IF history[n].type = "SELL" THEN history[n].profit_loss ELSE Zero)

BuyTotal == TotalOf(History, "BUY", Len(History))
SellTotal == TotalOf(History, "SELL", Len(History))
Realized == RealizedOf(History, Len(History))

\* C1: with initial_capital >= 0, cash >= 0 holds after every buy or sell
\* call with a positive price and a positive quantity, accepted or rejected.
C1_CashNonNegative == portfolio.cash >= 0

\* an accepted buy and an accepted sell were followed by a rejected buy
C1_Witness ==
    /\ BuyTotal > 0 /\ SellTotal > 0
    /\ call.op = "buy" /\ ~result.success

\* C2 (as stated): BUY totals - SELL totals + cash = initial_capital +
\* realized profit/loss.
C2_Original ==
    RInt(BuyTotal - SellTotal + portfolio.cash)
        = RAdd(RInt(portfolio.initial_capital), Realized)

\* C2 (amended): BUY totals - SELL totals + cash = initial_capital.
C2_CashConservation ==
    BuyTotal - SellTotal + portfolio.cash = portfolio.initial_capital

\* a sell has realized a profit or a loss
C2_Witness == SellTotal > 0 /\ Realized # Zero

\* C3: a buy is rejected, with the required and available amounts, exactly
\* when price*quantity > cash; a rejected buy changes nothing of the
\* portfolio, an accepted one is filled in full, and a buy costing exactly
\* the cash is accepted and leaves cash at 0.
C3_BuyStep ==
    call'.op = "buy" =>
        LET cost == call'.price * call'.quantity
            sc   == call'.stock_code
            held == IF sc \in DOMAIN Holdings THEN Holdings[sc].quantity ELSE 0
        IN  /\ ~result'.success <=> cost > portfolio.cash
            /\ ~result'.success =>
                  /\ result'.required = cost
                  /\ result'.available = portfolio.cash
                  /\ portfolio' = portfolio
            /\ result'.success =>
                  /\ portfolio'.cash = portfolio.cash - cost
                  /\ portfolio'.holdings[sc].quantity = held + call'.quantity
            /\ cost = portfolio.cash =>
                  result'.success /\ portfolio'.cash = 0

C3_BuyRejection == [][C3_BuyStep]_vars

\* a buy costing one unit more than the cash left was rejected
C3_Witness ==
    /\ call.op = "buy" /\ ~result.success
    /\ History # <<>>
    /\ result.required = result.available + 1

\* C4: a sell of an instrument that is not held, or of more than is held, is
\* rejected and changes nothing of the portfolio; a sell of exactly the held
\* quantity is accepted.
C4_SellStep ==
    call'.op = "sell" =>
        LET sc == call'.stock_code
        IN  /\ sc \notin DOMAIN Holdings =>
                  ~result'.success /\ result'.stock_code = sc
            /\ sc \in DOMAIN Holdings /\ call'.quantity > Holdings[sc].quantity =>
                  ~result'.success /\ result'.available = Holdings[sc].quantity
            /\ ~result'.success => portfolio' = portfolio
            /\ sc \in DOMAIN Holdings /\ call'.quantity = Holdings[sc].quantity =>
                  result'.success

C4_SellRejection == [][C4_SellStep]_vars

\* a sell of more than the held quantity was rejected
C4_Witness ==
    /\ call.op = "sell" /\ ~result.success
    /\ call.stock_code \in DOMAIN Holdings
    /\ call.quantity > Holdings[call.stock_code].quantity

\* C5: every entry of the holdings map has quantity > 0.
C5_HoldingsPositive ==
    \A c \in DOMAIN Holdings : Holdings[c].quantity > 0

\* a sell has closed one position while another one stays open
C5_Witness ==
    /\ call.op = "sell" /\ result.success
    /\ call.stock_code \notin DOMAIN Holdings
    /\ Holdings # NoHoldings

\* C6: an accepted buy of q shares at price p on a holding of Q shares at
\* average A sets the quantity to Q+q and the average to (Q*A + q*p)/(Q+q)
\* (p on a first buy); an accepted sell that leaves the position open leaves
\* its average unchanged; no other holding's average changes.
C6_AvgStep ==
    IsTrade(call') /\ result'.success =>
        LET sc == call'.stock_code
            q  == call'.quantity
            p  == call'.price
            Q  == IF sc \in DOMAIN Holdings THEN Holdings[sc].quantity ELSE 0
            A  == IF sc \in DOMAIN Holdings THEN Holdings[sc].avg_price ELSE Zero
        IN  /\ call'.op = "buy" =>
                  LET h == portfolio'.holdings[sc]
                  IN  /\ h.quantity = Q + q
                      /\ h.avg_price.n * (Q + q) * A.d
                             = h.avg_price.d * (Q * A.n + q * p * A.d)
                      /\ Q = 0 => h.avg_price = RInt(p)
            /\ call'.op = "sell" /\ sc \in DOMAIN portfolio'.holdings =>
                  /\ portfolio'.holdings[sc].avg_price = A
                  /\ portfolio'.holdings[sc].quantity = Q - q
            /\ \A c \in (DOMAIN Holdings \cap DOMAIN portfolio'.holdings) \ {sc} :
                  portfolio'.holdings[c] = Holdings[c]

C6_AverageCost == [][C6_AvgStep]_vars

\* a buy at another price has moved the average of an open position to a
\* value that is not a whole number of units
C6_Witness ==
    /\ call.op = "buy" /\ result.success
    /\ Holdings[call.stock_code].quantity > call.quantity
    /\ Holdings[call.stock_code].avg_price.d > 1

\* C7: an accepted buy or sell appends exactly one transaction, carrying the
\* call's type, code, quantity, price, total, date and the cash right after
\* the operation; a rejected call appends none; the transactions already in
\* the log keep their place and content.
C7_LogStep ==
    LET old == History
        new == portfolio'.transaction_history
    IN  /\ Len(new) >= Len(old)
        /\ SubSeq(new, 1, Len(old)) = old
        /\ IsTrade(call') /\ ~result'.success => new = old
        /\ IsTrade(call') /\ result'.success =>
              /\ Len(new) = Len(old) + 1
              /\ LET tx == new[Len(new)]
                 IN  /\ tx.type = (IF call'.op = "buy" THEN "BUY" ELSE "SELL")
                     /\ tx.stock_code = call'.stock_code
                     /\ tx.quantity = call'.quantity
                     /\ tx.price = call'.price
                     /\ tx.total = call'.price * call'.quantity
                     /\ tx.date = call'.date
                     /\ tx.cash_after = portfolio'.cash
                     /\ result'.transaction = tx

C7_AppendOnly == [][C7_LogStep]_vars

\* the log holds a BUY and a SELL and the last call, a rejected one, left it
\* as it was
C7_Witness ==
    /\ Len(History) >= 2
    /\ BuyTotal > 0 /\ SellTotal > 0
    /\ IsTrade(call) /\ ~result.success

\* C8: what get_performance_metrics reports of the closed trades
Sells == {i \in 1..Len(History) : History[i].type = "SELL"}
Wins == {i \in Sells : History[i].profit_loss.n > 0}
Metrics(cp) == get_performance_metrics(portfolio, cp)
Returned(m) == "raised" \notin DOMAIN m

\* |a - b| <= 1/(2k)
Within(a, b, k) ==
    LET diff == RSub(a, b)
    IN  2 * k * Abs(diff.n) <= diff.d

C8_SellStep ==
    call'.op = "sell" /\ result'.success =>
        LET sc == call'.stock_code
            q  == call'.quantity
            p  == call'.price
            A  == Holdings[sc].avg_price
            pl == RMul(RInt(q), RSub(RInt(p), A))
        IN  /\ portfolio'.cash = portfolio.cash + p * q
            /\ portfolio'.transaction_history[Len(History) + 1].profit_loss = pl
            /\ result'.profit_loss = pl

\* C8 (as stated): realized_profit equals the sum of the SELL transactions'
\* profit_loss, and win_rate is the percentage of SELL transactions with
\* profit_loss > 0 (0 when there are no sells).
C8_OriginalMetrics ==
    \A cp \in SnapVectors :
        Returned(Metrics(cp)) =>
            /\ Metrics(cp).realized_profit = Realized
            /\ Metrics(cp).win_rate =
                   (IF Sells = {} THEN Zero
                    ELSE Rat(100 * Cardinality(Wins), Cardinality(Sells)))

C8_RoundedMetrics ==
    \A cp \in SnapVectors :
        Returned(Metrics(cp)) =>
            LET m == Metrics(cp)
            IN  /\ m.realized_profit.d = 1
                /\ Within(m.realized_profit, Realized, 1)
                /\ m.num_closed_trades = Cardinality(Sells)
                /\ Sells = {} => m.win_rate = Zero
                /\ Sells # {} =>
                      /\ 10 % m.win_rate.d = 0
                      /\ Within(m.win_rate,
                                Rat(100 * Cardinality(Wins), Cardinality(Sells)),
                                10)

DailyValues == portfolio.daily_values

OnePerDate(daily_values) ==
    \A i, j \in 1..Len(daily_values) :
        daily_values[i].date = daily_values[j].date => i = j

EntriesOf(daily_values, d) ==
    {i \in 1..Len(daily_values) : daily_values[i].date = d}

\* cash + quantity held of the traded instrument * traded price
\*      + sum over the other holdings of quantity * average cost
TradeValuation(self, sc, p) ==
    LET others == DOMAIN self.holdings \ {sc}
        traded == IF sc \in DOMAIN self.holdings
                  THEN self.holdings[sc].quantity * p ELSE 0
    IN  RAdd(RInt(self.cash + traded),
             RSum([c \in others |->
                      RMul(RInt(self.holdings[c].quantity),
                           self.holdings[c].avg_price)], others))

C9_ValuationStep ==
    IsTrade(call') /\ result'.success =>
        LET d   == call'.date
            new == portfolio'.daily_values
        IN  /\ \E i \in 1..Len(new) :
                  /\ EntriesOf(new, d) = {i}
                  /\ new[i].value =
                        TradeValuation(portfolio', call'.stock_code, call'.price)
            /\ \A i \in 1..Len(DailyValues) :
                  DailyValues[i].date # d => new[i] = DailyValues[i]
            /\ Len(new) = Len(DailyValues)
                            + (IF EntriesOf(DailyValues, d) = {} THEN 1 ELSE 0)

\* C9: after any sequence of buy, sell, take_snapshot and to_dict/from_dict
\* operations daily_values holds at most one entry per date; an accepted buy
\* or sell on date d sets the single entry for d to the valuation at the
\* traded price and leaves the entries of the other dates unchanged.
C9_OneEntryPerDate ==
    []OnePerDate(DailyValues) /\ [][C9_ValuationStep]_vars

\* C10: from_dict(p.to_dict()) has the same name, initial_capital, cash,
\* holdings, transaction_history, daily_values, daily_snapshots and
\* created_at as p.
C10_RoundTrip ==
    \A ts \in {now, now + 1} :
        LET q == from_dict(to_dict(portfolio), ts)
        IN  /\ q.name = portfolio.name
            /\ q.initial_capital = portfolio.initial_capital
            /\ q.cash = portfolio.cash
            /\ q.holdings = portfolio.holdings
            /\ q.transaction_history = portfolio.transaction_history
            /\ q.daily_values = portfolio.daily_values
            /\ q.daily_snapshots = portfolio.daily_snapshots
            /\ q.created_at = portfolio.created_at

(***************************************************************************)
(* Properties of the valuation metrics.                                    *)
(***************************************************************************)
\* cash + sum(quantity * price), the average cost standing for a missing price
ExactValue(cp) ==
    LET worth(c) == IF c \notin DOMAIN Holdings THEN Zero
                    ELSE IF c \in DOMAIN cp
                         THEN RMul(RInt(Holdings[c].quantity), cp[c])
                         ELSE RMul(RInt(Holdings[c].quantity),
                                   Holdings[c].avg_price)
    IN  RAdd(RInt(portfolio.cash), RAdd(worth("A"), worth("B")))

\* sum((price - avg_cost) * quantity)
ExactUnrealized(cp) ==
    LET gain(c) == IF c \in DOMAIN Holdings /\ c \in DOMAIN cp
                   THEN RMul(RSub(cp[c], Holdings[c].avg_price),
                             RInt(Holdings[c].quantity))
                   ELSE Zero
    IN  RAdd(gain("A"), gain("B"))

ExactGain(cp) == RSub(ExactValue(cp), RInt(portfolio.initial_capital))

\* the price vectors the metrics are asked for: no price, a price for one of the
\* codes only, a different price for each code
C11_Prices ==
    {NoPrices, "A" :> RInt(2), ("A" :> RInt(1)) @@ ("B" :> RInt(2))}

C11_Example ==
    LET p == buy(NewPortfolio(1000000, "Test Portfolio", 0),
                 "A", "ATTIJARI BANK", 5150, 50, 1, 1).self
        m == get_performance_metrics(p, "A" :> RInt(5300))
    IN  /\ m.cash = RInt(742500)
        /\ m.unrealized_profit = RInt(7500)
        /\ m.total_value = RInt(1007500)
        /\ m.roi_percentage = Rat(75, 100)

AllocationSum(allocation) == RSum(allocation, DOMAIN allocation)

\* |a - b| <= c
Near(a, b, c) == LET d == RSub(a, b) IN RLe(Rat(Abs(d.n), d.d), c)

\* C12 (as stated): when the total value is positive the percentages of
\* get_allocation sum to 100 within 0.1; when it is not, the result is
\* exactly {CASH: 100}.
C12_Original ==
    \A cp \in AllocVectors :
        LET a == get_allocation(portfolio, cp)
        IN  IF RLt(Zero, get_current_value(portfolio, cp))
            THEN Near(AllocationSum(a), RInt(100), Rat(1, 10))
            ELSE a = "CASH" :> RInt(100)

\* C12 (amended): when the total value is positive the result has one entry
\* for CASH and one per holding, each a multiple of 0.01, and their sum is
\* within 0.005 times the number of entries of 100; when the total value is
\* not positive the result is exactly {CASH: 100}.
C12_AllocationSum ==
    \A cp \in AllocVectors :
        LET a == get_allocation(portfolio, cp)
            n == Cardinality(DOMAIN Holdings) + 1
        IN  IF RLt(Zero, get_current_value(portfolio, cp))
            THEN /\ DOMAIN a = {"CASH"} \cup DOMAIN Holdings
                 /\ \A c \in DOMAIN a : 100 % a[c].d = 0
                 /\ Near(AllocationSum(a), RInt(100), Rat(5 * n, 1000))
            ELSE a = "CASH" :> RInt(100)

\* an allocation over more than 19 positions was returned and its sum is
\* further than 0.1 from 100
C12_Witness ==
    /\ call.op = "get_allocation"
    /\ Cardinality(DOMAIN result.allocation) > 20
    /\ ~Near(AllocationSum(result.allocation), RInt(100), Rat(1, 10))

\* the degenerate allocation was returned
C12_WitnessDegenerate ==
    /\ call.op = "get_allocation"
    /\ ~RLt(Zero, get_current_value(portfolio, call.current_prices))
    /\ result.allocation = "CASH" :> RInt(100)

(***************************************************************************)
(* Properties of the valuation-series analytics.                           *)
(***************************************************************************)
AllEqual(xs) == \A i, j \in 1..Len(xs) : xs[i] = xs[j]

\* C13: the Sharpe ratio is exactly 0 when the valuation series sorted by date
\* yields fewer than two valid returns or when the returns have zero standard
\* deviation (they are all the same).
C13_SharpeZero ==
    LET returns == Returns(DailyValues)
    IN  Len(returns) < 2 \/ AllEqual(returns)
            => calculate_sharpe_ratio(portfolio) = Zero

\* the part of C13 that holds: fewer than two returns, or two equal returns
C13_FewReturns ==
    LET returns == Returns(DailyValues)
    IN  Len(returns) < 2 \/ (Len(returns) = 2 /\ AllEqual(returns))
            => calculate_sharpe_ratio(portfolio) = Zero

\* the fall from the entry a to the entry b, in percent of a, when b is not
\* dated before a
DropBetween(a, b) ==
    IF a.date <= b.date /\ RLt(Zero, a.value)
    THEN RMul(RDiv(RSub(a.value, b.value), a.value), RInt(100))
    ELSE Zero

\* C14: the max drawdown is the largest fall, in percent, from an entry of the
\* valuation series to an entry of the same or a later date; it is 0 when no
\* entry is below an entry of an earlier date and when there are fewer than 2
\* entries, whatever the order in which the entries were recorded.
C14_MaxDrawdown ==
    LET entries == {DailyValues[i] : i \in 1..Len(DailyValues)}
        dd      == calculate_max_drawdown(portfolio)
    IN  /\ \A a, b \in entries : RLe(DropBetween(a, b), dd)
        /\ \/ dd = Zero
           \/ \E a, b \in entries : dd = DropBetween(a, b)
        /\ Len(DailyValues) < 2 => dd = Zero
        /\ (\A a, b \in entries : a.date < b.date => RLe(a.value, b.value))
               => dd = Zero

\* three or more valuations, one of them recorded after a valuation of a later
\* date, and a positive drawdown
C14_Witness ==
    /\ Len(DailyValues) >= 3
    /\ \E i, j \in 1..Len(DailyValues) :
           i < j /\ DailyValues[i].date > DailyValues[j].date
    /\ RLt(Zero, calculate_max_drawdown(portfolio))

(***************************************************************************)
(* Properties of the transaction history view.                             *)
(***************************************************************************)
\* the transactions of the log, of the code stock_code when one is given
\* (""  for none), last appended first
RECURSIVE NewestFirst(_, _)
NewestFirst(history, stock_code) ==
    IF history = <<>> THEN <<>>
    ELSE LET last == history[Len(history)]
             rest == NewestFirst(SubSeq(history, 1, Len(history) - 1),
                                 stock_code)
         IN  IF stock_code = "" \/ last.stock_code = stock_code
             THEN <<last>> \o rest ELSE rest

HistoryLimits == 0..MaxTx

\* C15: get_transaction_history(limit, stock_code) leaves the portfolio as it
\* is and, for every integer limit >= 0, returns at most `limit`
\* transactions: the first of the log (of stock_code when given) in reverse
\* order of appending.
C15_HistoryView ==
    \A limit \in HistoryLimits, stock_code \in {""} \cup Codes :
        LET r == get_transaction_history(portfolio, <<limit>>, stock_code)
            newest == NewestFirst(History, stock_code)
        IN  /\ r.self = portfolio
            /\ Len(r.ret) <= limit
            /\ r.ret = SubSeq(newest, 1, Len(r.ret))

\* what holds: without a limit, or with a limit >= 1, the view is the newest
\* transactions first, at most `limit` of them, and the portfolio is unchanged
C15_PositiveLimit ==
    \A l \in {<<>>} \cup {<<k>> : k \in HistoryLimits \ {0}},
       stock_code \in {""} \cup Codes :
        LET r == get_transaction_history(portfolio, l, stock_code)
            newest == NewestFirst(History, stock_code)
        IN  /\ r.self = portfolio
            /\ l # <<>> => Len(r.ret) <= l[1]
            /\ r.ret = SubSeq(newest, 1, Len(r.ret))
            /\ Len(r.ret) = Len(newest) \/ (l # <<>> /\ Len(r.ret) = l[1])

(***************************************************************************)
(* Properties of the decision engine.                                      *)
(***************************************************************************)
AdapterNames == {"forecast", "sentiment", "anomalies", "technical"}

\* the entry of signals an adapter fills
SignalKey(name) == IF name = "anomalies" THEN "anomaly" ELSE name

\* env with the adapters of failing made to raise
WithFailures(env, failing) ==
    [k \in DOMAIN env |-> IF k \in failing THEN Raised("adapter failed")
                          ELSE env[k]]

Called == call.op = "make_recommendation"
IsDecision(r) == "recommendation" \in DOMAIN r

RawScore(env) == DecisionScore(call.stock_code, env)

\* C16: a call that returns a Decision returns one as well when any of the
\* four signal adapters raise instead; every adapter that raises leaves an
\* error marker in its signal and takes exactly its own contribution out of
\* the raw score (the difference it makes when it alone raises), so that the
\* raw score is 0 when all four raise, and the signals of the other adapters
\* are what they were.
C16_AdapterFailure ==
    Called /\ IsDecision(result) =>
        \A base \in {RawScore(call.env)} :
        \A alone \in {[name \in AdapterNames |->
                          RSub(base, RawScore(WithFailures(call.env, {name})))]} :
        \A failing \in SUBSET AdapterNames :
        \A d \in {make_recommendation(call.stock_code, call.user_profile,
                                      WithFailures(call.env, failing), now,
                                      "up")} :
            /\ IsDecision(d)
            /\ \A name \in failing :
                   "error" \in DOMAIN d.signals[SignalKey(name)]
            /\ \A name \in AdapterNames \ failing :
                   Get(d.signals, SignalKey(name), NoSignal)
                       = Get(result.signals, SignalKey(name), NoSignal)
            /\ RawScore(WithFailures(call.env, failing))
                   = RSub(base, RSum(alone, failing))
            /\ d.raw_score = Round(RSub(base, RSum(alone, failing)), 100)
            /\ failing = AdapterNames => d.raw_score = Zero

\* a Decision came back although the forecast and the anomaly adapter raised,
\* with the two error markers and the sentiment contribution in its raw score
C16_Witness ==
    /\ Called /\ IsDecision(result)
    /\ call.env.use_mocks
    /\ call.env.forecast.raises /\ call.env.anomalies.raises
    /\ ~call.env.sentiment.raises /\ ~call.env.technical.raises
    /\ "error" \in DOMAIN result.signals["forecast"]
    /\ "error" \in DOMAIN result.signals["anomaly"]
    /\ result.raw_score = RInt(-3)

\* C17: a call for a code that is not a known instrument returns no Decision.
C17_UnknownCode ==
    Called /\ call.stock_code \notin DOMAIN STOCK_NAMES => ~IsDecision(result)

\* the contribution of each signal as the scoring rules state it, from the
\* output of its adapter (a raised adapter gives an unavailable signal)
C18_Forecast(f) ==
    IF f.raises THEN Zero
    ELSE IF RLt(Rat(2, 100), f.trend)
         THEN RMin(RMul(f.trend, RInt(100)), RInt(4))
         ELSE IF RLt(f.trend, Rat(-2, 100))
              THEN RSub(Zero, RMin(RMul(RAbs(f.trend), RInt(100)), RInt(4)))
              ELSE Zero

C18_Sentiment(s) ==
    IF s.raises THEN Zero
    ELSE IF RLt(Rat(4, 10), s.score) \/ RLt(s.score, Rat(-4, 10))
         THEN RMul(s.score, RInt(3))
         ELSE Zero

C18_Anomaly(a) ==
    IF a.raises THEN Zero
    ELSE RSum([k \in {"volume", "price", "none"} |->
                  IF k = "volume" /\ a.volume_spike THEN RInt(-2)
                  ELSE IF k = "price" /\ a.price_spike THEN RInt(-1)
                  ELSE IF k = "none" /\ ~a.any_anomaly THEN RInt(1)
                  ELSE Zero],
              {"volume", "price", "none"})

C18_Technical(t) ==
    IF t.raises THEN Zero
    ELSE RAdd(IF t.rsi = <<>> THEN Zero
              ELSE IF RLt(t.rsi[1], RInt(30)) THEN Rat(3, 2)
              ELSE IF RLt(RInt(70), t.rsi[1]) THEN Rat(-3, 2)
              ELSE Zero,
              IF t.macd = <<>> THEN Zero
              ELSE IF t.macd[1].trend = "bullish" THEN Rat(1, 2)
              ELSE IF t.macd[1].trend = "bearish" THEN Rat(-1, 2)
              ELSE Zero)

C18_Sum(env) ==
    RAdd(RAdd(C18_Forecast(Adapter(env, "forecast")),
              C18_Sentiment(Adapter(env, "sentiment"))),
         RAdd(C18_Anomaly(Adapter(env, "anomalies")),
              C18_Technical(Adapter(env, "technical"))))

\* the forecast answers with a rise of 5 % and no other signal is available
C18_OnlyForecastUp(env) ==
    /\ ~Adapter(env, "forecast").raises
    /\ Adapter(env, "forecast").trend = Rat(5, 100)
    /\ \A name \in AdapterNames \ {"forecast"} : Adapter(env, name).raises

\* C18: the raw score of a call is the sum of the forecast, sentiment,
\* anomaly and technical contributions of the scoring rules; a forecast of
\* +5 % alone gives 4; the outcome of the memory channel does not change it.
C18_RawScore ==
    Called =>
        \A raw \in {RawScore(call.env)} :
            /\ raw = C18_Sum(call.env)
            /\ IsDecision(result) => result.raw_score = Round(raw, 100)
            /\ C18_OnlyForecastUp(call.env) =>
                  raw = RInt(4) /\ result.raw_score = RInt(4)
            /\ \A m \in MemoryOutcomes :
                  /\ RawScore([call.env EXCEPT !.memory = m]) = raw
                  /\ IsDecision(result) =>
                        make_recommendation(call.stock_code, call.user_profile,
                                            [call.env EXCEPT !.memory = m],
                                            now, "up").raw_score
                            = result.raw_score

C18_Witness ==
    /\ Called
    /\ IsDecision(result)
    /\ C18_OnlyForecastUp(call.env)
    /\ result.raw_score = RInt(4)
    /\ call.env.memory.raises

\* multiplier and threshold of a profile as the rules state them
C19_Multiplier(user_profile) ==
    IF user_profile = "conservative" THEN Rat(1, 2)
    ELSE IF user_profile = "aggressive" THEN Rat(12, 10)
    ELSE RInt(1)

C19_T(user_profile) ==
    IF user_profile = "conservative" THEN RInt(4)
    ELSE IF user_profile = "aggressive" THEN RInt(2)
    ELSE RInt(3)

AdjustedScore == RMul(RawScore(call.env), C19_Multiplier(call.user_profile))

\* what the recommendation rests on
Verdict(d) == [score |-> d.score, recommendation |-> d.recommendation,
               confidence |-> d.confidence]

\* C19: the adjusted score is the raw score times the multiplier of the
\* profile; the recommendation is BUY exactly when it is at least T, SELL
\* exactly when it is at most -T and HOLD otherwise; a profile other than
\* the three is scored as moderate.
C19_Recommendation ==
    Called /\ IsDecision(result) =>
        \A adj \in {AdjustedScore}, T \in {C19_T(call.user_profile)} :
            /\ result.score = Round(adj, 100)
            /\ result.recommendation = "BUY" <=> RLe(T, adj)
            /\ result.recommendation = "SELL" <=> RLe(adj, RSub(Zero, T))
            /\ result.recommendation = "HOLD" <=>
                  RLt(RSub(Zero, T), adj) /\ RLt(adj, T)
            /\ call.user_profile \notin {"conservative", "moderate", "aggressive"} =>
                  \E half \in HalfWays :
                      Verdict(make_recommendation(call.stock_code, "moderate",
                                                  call.env, now, half))
                          = Verdict(result)

\* a profile outside the three, scored exactly at the moderate threshold
C19_Witness ==
    /\ Called
    /\ IsDecision(result)
    /\ call.user_profile = "balanced"
    /\ AdjustedScore = RInt(3)
    /\ result.recommendation = "BUY"

\* the confidence the rules state for an adjusted score, before rounding
C20_Confidence(recommendation, adj, T) ==
    IF recommendation = "HOLD"
    THEN RAdd(Rat(1, 2), RMul(RAbs(adj), Rat(5, 100)))
    ELSE RMin(RAdd(Rat(1, 2), RMul(RSub(RAbs(adj), T), Rat(1, 10))),
              Rat(95, 100))

\* C20: the recommendation of a Decision is BUY, SELL or HOLD and its
\* confidence is between 0 and 1: it is min(0.5 + (|score| - T) * 0.1, 0.95)
\* for BUY and SELL and 0.5 + |score| * 0.05 for HOLD, rounded to 2
\* decimals; a HOLD stays below 0.5 + T * 0.05, which is under the 0.95 that
\* BUY and SELL can reach.
C20_Confidence_Range ==
    Called /\ IsDecision(result) =>
        \A adj \in {AdjustedScore}, T \in {C19_T(call.user_profile)} :
            /\ result.recommendation \in {"BUY", "SELL", "HOLD"}
            /\ RLe(Zero, result.confidence) /\ RLe(result.confidence, RInt(1))
            /\ \E half \in HalfWays :
                  result.confidence =
                      RoundFloat(C20_Confidence(result.recommendation, adj, T),
                                 100, half)
            /\ result.recommendation = "HOLD" =>
                  /\ RLe(result.confidence, RAdd(Rat(1, 2), RMul(T, Rat(5, 100))))
                  /\ RLt(result.confidence, Rat(95, 100))
            /\ result.recommendation # "HOLD" =>
                  /\ RLe(Rat(1, 2), result.confidence)
                  /\ RLe(result.confidence, Rat(95, 100))

\* a BUY whose score is so far over the threshold that the cap applies
C20_Witness ==
    /\ Called
    /\ IsDecision(result)
    /\ result.recommendation = "BUY"
    /\ RLt(Rat(45, 10), RSub(AdjustedScore, C19_T(call.user_profile)))
    /\ result.confidence = Rat(95, 100)

\* the tally of the risk rules over the signals of a Decision and the
\* profile-multiplied score
C21_Tally(signals, adjusted_score) ==
    LET anomaly   == Get(signals, "anomaly", NoSignal)
        forecast  == Get(signals, "forecast", NoSignal)
        sentiment == Get(signals, "sentiment", NoSignal)
        technical == Get(signals, "technical", NoSignal)
        rsi       == Get(technical, "rsi", <<>>)
    IN    (IF Get(anomaly, "detected", FALSE) THEN 2 ELSE 0)
        + (IF RLt(Rat(7, 10), Get(anomaly, "anomaly_score", Zero)) THEN 1 ELSE 0)
        + (IF RLt(Get(forecast, "confidence", RInt(1)), Rat(1, 2)) THEN 1 ELSE 0)
        + (IF RLt(Rat(8, 10), RAbs(Get(sentiment, "score", Zero))) THEN 1 ELSE 0)
        + (IF rsi # <<>> /\ (RLt(rsi[1], RInt(20)) \/ RLt(RInt(80), rsi[1]))
           THEN 1 ELSE 0)
        + (IF RLt(RInt(7), RAbs(adjusted_score)) THEN 1 ELSE 0)

C21_Level(tally) ==
    IF tally <= 1 THEN "LOW" ELSE IF tally <= 3 THEN "MEDIUM" ELSE "HIGH"

\* C21: the risk level of a Decision is LOW up to a tally of 1, MEDIUM up to
\* 3 and HIGH above, the tally counting 2 for a detected anomaly and 1 each
\* for an anomaly score over 0.7, a forecast confidence under 0.5, a
\* sentiment beyond 0.8, an RSI under 20 or over 80 (0 included) and an
\* adjusted score beyond 7.
C21_RiskLevel ==
    Called /\ IsDecision(result) =>
        result.risk_level = C21_Level(C21_Tally(result.signals, AdjustedScore))

\* the same with the RSI of 0 and the score beyond 7 left aside
C21_RiskLevelElsewhere ==
    Called /\ IsDecision(result)
           /\ Get(Get(result.signals, "technical", NoSignal), "rsi", <<>>) # <<Zero>>
           /\ RLe(RAbs(AdjustedScore), RInt(7))
           /\ RLe(RAbs(RawScore(call.env)), RInt(7)) =>
        result.risk_level = C21_Level(C21_Tally(result.signals, AdjustedScore))

\* a Decision without the wall clock reading of its call
Timeless(d) == [k \in DOMAIN d \ {"timestamp"} |-> d[k]]

Top == call.op = "get_top_recommendations"

Min(a, b) == IF a <= b THEN a ELSE b
Position(codes, code) == CHOOSE i \in 1..Len(codes) : codes[i] = code

\* the Decision of every instrument of the batch whose scoring returns one
BatchDecisions ==
    {d \in {make_recommendation(code, call.user_profile, call.market[code],
                                call.ts + Position(get_all_stock_codes(call.market),
                                                   code),
                                call.half) : code \in DOMAIN call.market} :
        IsDecision(d)}

Requested(d) ==
    \/ call.recommendation_type \notin {"buy", "sell"}
    \/ call.recommendation_type = "buy" /\ d.recommendation = "BUY"
    \/ call.recommendation_type = "sell" /\ d.recommendation = "SELL"

Elements(s) == {s[i] : i \in 1..Len(s)}

\* C23: get_top_recommendations scores every instrument, leaves out the
\* ones whose scoring raises and, for n >= 0, returns at most n Decisions,
\* all of the requested type, by non-increasing |score|, none of those left
\* out by n being stronger than one returned.
C23_TopRecommendations ==
    Top /\ call.n >= 0 =>
        \A candidates \in {{d \in BatchDecisions : Requested(d)}} :
            /\ Len(result) <= call.n
            /\ Len(result) = Min(call.n, Cardinality(candidates))
            /\ Elements(result) \subseteq candidates
            /\ Cardinality(Elements(result)) = Len(result)
            /\ \A i, j \in 1..Len(result) :
                  i < j => RLe(RAbs(result[j].score), RAbs(result[i].score))
            /\ \A d \in candidates \ Elements(result), i \in 1..Len(result) :
                  RLe(RAbs(d.score), RAbs(result[i].score))

\* one instrument fails, the strongest of the others is not the first of
\* the code list and n leaves one out
C23_Witness ==
    /\ Top
    /\ call.n = 1 /\ Len(result) = 1
    /\ call.recommendation_type = "all"
    /\ \E code \in DOMAIN call.market : call.market[code] = Failing
    /\ Cardinality(BatchDecisions) = 2
    /\ \E d \in BatchDecisions :
         /\ d.timestamp < result[1].timestamp
         /\ RLt(RAbs(d.score), RAbs(result[1].score))

Summarized == call.op = "get_market_summary"

Count(decisions, recommendation) ==
    Cardinality({d \in decisions : d.recommendation = recommendation})

Detected(d) == Get(Get(d.signals, "anomaly", NoSignal), "detected", FALSE)
Strong(d) == RLe(Rat(8, 10), d.confidence)

\* C24: the three counts of the summary add up to total_analyzed, the number
\* of instruments scored without failure; the label is HAUSSIER exactly
\* when buys > 1.5 * sells, else BAISSIER exactly when sells > 1.5 * buys,
\* else NEUTRE; there are at most 10 alerts, each for an instrument with a
\* detected anomaly or a Decision of confidence >= 0.8.
C24_MarketSummary ==
    Summarized =>
        \A decisions \in {BatchDecisions} :
        \A b \in {Count(decisions, "BUY")}, s \in {Count(decisions, "SELL")} :
            /\ result.total_analyzed = Cardinality(decisions)
            /\ result.buy_signals = b /\ result.sell_signals = s
            /\ result.hold_signals = Count(decisions, "HOLD")
            /\ result.buy_signals + result.sell_signals + result.hold_signals
                  = result.total_analyzed
            /\ result.overall_sentiment = "HAUSSIER" <=> 2 * b > 3 * s
            /\ result.overall_sentiment = "BAISSIER" <=>
                  ~(2 * b > 3 * s) /\ 2 * s > 3 * b
            /\ result.overall_sentiment = "NEUTRE" <=>
                  ~(2 * b > 3 * s) /\ ~(2 * s > 3 * b)
            /\ Len(result.alerts) <= 10
            /\ \A i \in 1..Len(result.alerts) :
                  \E d \in decisions :
                      /\ d.stock_name = result.alerts[i].stock_name
                      /\ IF result.alerts[i].alert = "Anomalie detectee"
                         THEN Detected(d) ELSE Strong(d)

\* six instruments with two alerts each
C24_Witness ==
    /\ Summarized
    /\ Len(result.alerts) = 10
    /\ Cardinality({d \in BatchDecisions : Detected(d) /\ Strong(d)}) = 6
    /\ result.overall_sentiment = "HAUSSIER"

\* a summary in which an instrument failed
C24_WitnessFailure ==
    /\ Summarized
    /\ result.total_analyzed < Len(get_all_stock_codes(call.market))
    /\ result.overall_sentiment = "BAISSIER"

(***************************************************************************)
(* Properties of the API handlers.                                         *)
(***************************************************************************)
AllDone == \A t \in Threads : call[t].op = "done"

\* the Portfolio after the requests have been handled one after the other
\* in the order given
RECURSIVE Serially(_, _)
Serially(self, order) ==
    IF order = <<>> THEN self
    ELSE LET req == call[Head(order)]
         IN  IF req.quantity <= 0 THEN Serially(self, Tail(order))
             ELSE Serially(buy(self, req.stock_code,
                               get_stock_name_mock(req.stock_code),
                               get_current_price_mock(req.stock_code),
                               req.quantity, 1, 1).self,
                           Tail(order))

Orders == {order \in [Threads -> Threads] :
              \A t \in Threads : \E i \in Threads : order[i] = t}

\* cash and the quantity held of every code
CashAndHoldings(self) ==
    [cash |-> self.cash,
     holdings |-> [c \in DOMAIN self.holdings |-> self.holdings[c].quantity]]

\* C25: requests handled concurrently leave cash >= 0 and, once all are
\* answered, the cash and holdings that handling them in some serial order
\* gives.
C25_OneWriter ==
    /\ portfolio.cash >= 0
    /\ AllDone =>
          \E order \in Orders :
              CashAndHoldings(portfolio)
                  = CashAndHoldings(Serially(NewPortfolio(ApiCapital, "Demo Portfolio", 0),
                                       order))

(***************************************************************************)
(* Properties of the shipped configuration.                                *)
(***************************************************************************)
ScoredModules == {"forecast", "sentiment", "anomalies"}

\* the sum of the contributions of what the modules returned
ModuleSum(env) ==
    RAdd(RAdd(C18_Forecast(env.forecast), C18_Sentiment(env.sentiment)),
         RAdd(C18_Anomaly(env.anomalies),
              C18_Technical(Adapter(env, "technical"))))

\* C26: with USE_MOCKS off, a forecast, sentiment or anomaly module that
\* returns a result leaves no error marker in its signal, and the raw score
\* includes the contributions of the results returned.
C26_RealModules ==
    Called /\ IsDecision(result) /\ ~call.env.use_mocks =>
        /\ \A name \in ScoredModules :
              ~call.env[name].raises =>
                  "error" \notin DOMAIN result.signals[SignalKey(name)]
        /\ result.raw_score = Round(ModuleSum(call.env), 100)

\* with the mock providers this is so
C26_WithMocks ==
    Called /\ IsDecision(result) /\ call.env.use_mocks =>
        /\ \A name \in ScoredModules :
              ~call.env[name].raises =>
                  "error" \notin DOMAIN result.signals[SignalKey(name)]
        /\ result.raw_score = Round(ModuleSum(call.env), 100)

\* C27: the raw score of a call lies between -10 and +10.
C27_ScoreRange ==
    Called =>
        \A raw \in {RawScore(call.env)} :
            RLe(RInt(-10), raw) /\ RLe(raw, RInt(10))

\* it lies between -12 and +10
C27_ScoreRangeOfCode ==
    Called =>
        \A raw \in {RawScore(call.env)} :
            RLe(RInt(-12), raw) /\ RLe(raw, RInt(10))

(***************************************************************************)
(* Conservation of cash and of cost basis.                                 *)
(***************************************************************************)
\* sum over the holdings of quantity * average cost
CostBasis ==
    RSum([c \in DOMAIN Holdings |->
              RMul(RInt(Holdings[c].quantity), Holdings[c].avg_price)],
         DOMAIN Holdings)

\* C28: in every state reached by buy and sell calls, cash + the cost basis
\* of the holdings = initial_capital + the profit_loss of all SELL
\* transactions, and cash = initial_capital - BUY totals + SELL totals.
C28_Conservation ==
    /\ RAdd(RInt(portfolio.cash), CostBasis)
           = RAdd(RInt(portfolio.initial_capital), Realized)
    /\ portfolio.cash = portfolio.initial_capital - BuyTotal + SellTotal

\* a position bought at two prices was partly sold at a profit or a loss
C28_Witness ==
    /\ SellTotal > 0 /\ Realized # Zero
    /\ \E c \in DOMAIN Holdings : Holdings[c].avg_price.d # 1

(***************************************************************************)
(* The performance identity and the reporting calls.                       *)
(***************************************************************************)
ReadOps ==
    {"get_performance_metrics", "get_allocation", "get_position_details",
     "get_current_value"}

\* total_gain_loss, before it is rounded
TotalGainLoss(cp) ==
    RSub(get_current_value(portfolio, cp), RInt(portfolio.initial_capital))

\* total_gain_loss = realized_profit + unrealized_profit, all unrounded
C29_Identity ==
    \A cp \in PriceVectors :
        Returned(Metrics(cp)) =>
            TotalGainLoss(cp) = RAdd(total_realized_profit(portfolio),
                                     unrealized_pl(portfolio, cp))

\* a reporting call leaves the portfolio as it was, and the same call made
\* again with the same prices returns the same value
C29_ReadStep ==
    /\ call'.op \in ReadOps => portfolio' = portfolio
    /\ (call.op \in ReadOps /\ call' = call) => result' = result

\* C29: in every state reached by buy and sell calls and for every price
\* vector, the unrounded total_gain_loss of get_performance_metrics is
\* realized_profit + unrealized_profit; get_performance_metrics,
\* get_allocation, get_position_details and get_current_value change no
\* portfolio state, and a repeated call with the same prices returns the
\* same result.
C29_Metrics == [](C29_Identity) /\ [][C29_ReadStep]_vars

\* the metrics were reported for a portfolio with a realized and an
\* unrealized profit or loss
C29_Witness ==
    /\ call.op = "get_performance_metrics"
    /\ Returned(result.ret)
    /\ result.ret.realized_profit # Zero
    /\ result.ret.unrealized_profit # Zero
    /\ result.ret.total_gain_loss
           = RAdd(result.ret.realized_profit, result.ret.unrealized_profit)

(***************************************************************************)
(* The ledger under a quantity of zero or less.                            *)
(***************************************************************************)
C30_Step ==
    (IsTrade(call') /\ call'.quantity <= 0) =>
        /\ portfolio'.cash >= 0
        /\ call'.op = "buy" => portfolio'.cash <= portfolio.cash
        /\ call'.op = "sell" => portfolio'.cash >= portfolio.cash
        /\ \A c \in DOMAIN portfolio'.holdings :
               portfolio'.holdings[c].quantity > 0

\* C30: after any buy or sell call with quantity <= 0, cash >= 0 holds, the
\* buy has not increased cash, the sell has not decreased it, and no holding
\* has a quantity <= 0.
C30_LedgerInvariants == [][C30_Step]_vars

====
